---- MODULE Spec2Model ----
(***************************************************************************)
(* Layered values resolution of pkg/cli/values: the deep merge of value    *)
(* trees (mergeMaps), the directory walker (listFilesRecursive), the       *)
(* source materializer (readFile) and the precedence pipeline              *)
(* (Options.MergeValues).                                                  *)
(*                                                                         *)
(* Strings are TLA+ strings; a value tree is a function from keys to       *)
(* values, a value being a record [kind, s, m]: a scalar kind ("int",      *)
(* "str", "float", "bool", "null") with the scalar's text in s, or kind    *)
(* "map" with the nested tree in m.                                        *)
(***************************************************************************)
EXTENDS Integers, Sequences, FiniteSets, TLC

VARIABLES
    heap,       \* merge: the map objects, by address (1..Len(heap))
    heap0,      \* merge: the heap as it was before the call
    mbase,      \* merge: address of the first argument (a)
    moverlay,   \* merge: address of the second argument (b)
    mout,       \* merge: address of the returned map, 0 before the call
    mpc,        \* merge: "call" | "returned"
    lfs,        \* list: the filesystem, root name -> node
    ldir,       \* list: the directory argument
    lext,       \* list: the extension argument
    lres,       \* list: the returned [files, err]
    lpc,        \* list: "call" | "returned"
    rref,       \* read: the reference argument (filePath)
    renv,       \* read: the world: stdin, providers, remote documents, files
    rres,       \* read: the returned [data, err, trace, stdin]
    rpc,        \* read: "call" | "returned"
    opts,       \* MergeValues: the Options the call is made on
    stdin,      \* MergeValues: standard input, [data, broken]
    pc,         \* MergeValues: the loop the call is in, "done" once returned
    idx,        \* MergeValues: position in the list that loop ranges over
    valuesFiles,\* MergeValues: the working file list
    base,       \* MergeValues: the accumulator
    ret,        \* MergeValues: the returned map, [nil, tree]
    err,        \* MergeValues: the returned error
    log,        \* history: the sources listed, fetched and applied, in order
    given,      \* history: per tier, what its sources alone gave so far
    ndir        \* history: how many entries of valuesFiles came from directories

mvars == <<heap, heap0, mbase, moverlay, mout, mpc>>
lvars == <<lfs, ldir, lext, lres, lpc>>
rvars == <<rref, renv, rres, rpc>>
pvars == <<opts, stdin, pc, idx, valuesFiles, base, ret, err, log, given, ndir>>

-----------------------------------------------------------------------------
(* Bounds *)

\* Largest number of entries (keys at any depth) of a generated value tree.
MaxNodes == 3

\* Largest number of entries (files and directories at any depth) under the
\* root of a generated directory tree.
MaxEntries == 3

\* Largest number of source entries, all seven option lists together, of a
\* generated Options value.
MaxSources == 3

-----------------------------------------------------------------------------
(* Value trees *)

Keys == {"a", "b"}

EmptyTree == [k \in {} |-> 0]

IntV(t) == [kind |-> "int", s |-> t, m |-> EmptyTree]
StrV(t) == [kind |-> "str", s |-> t, m |-> EmptyTree]
MapV(t) == [kind |-> "map", s |-> "", m |-> t]

\* The scalars of generated base trees and of generated overlay trees: mergeMaps
\* never compares two scalars, so one value a side tells whose value a key holds.
BaseScalars == {IntV("1")}
OverlayScalars == {IntV("2")}

IsMap(v) == v.kind = "map"

\* A sequence holding the elements of the finite set S, each once.
RECURSIVE SetToSeq(_)
SetToSeq(S) ==
    IF S = {} THEN <<>>
    ELSE LET x == CHOOSE y \in S : TRUE IN <<x>> \o SetToSeq(S \ {x})

RECURSIVE SumSeq(_)
SumSeq(q) == IF q = <<>> THEN 0 ELSE Head(q) + SumSeq(Tail(q))

\* Number of entries of a tree, nested ones included.
RECURSIVE TreeSize(_)
TreeSize(t) ==
    LET ks == SetToSeq(DOMAIN t)
    IN SumSeq([i \in 1..Len(ks) |->
                 1 + (IF IsMap(t[ks[i]]) THEN TreeSize(t[ks[i]].m) ELSE 0)])

\* Every tree over Keys and the scalars sc with at most n entries.
RECURSIVE TreesUpTo(_, _)
TreesUpTo(sc, n) ==
    IF n = 0 THEN {EmptyTree}
    ELSE LET sub == TreesUpTo(sc, n - 1)
             vals == sc \cup {MapV(t) : t \in sub}
         IN {t \in UNION {[S -> vals] : S \in SUBSET Keys} : TreeSize(t) <= n}

BaseTrees == TreesUpTo(BaseScalars, MaxNodes)
OverlayTrees == TreesUpTo(OverlayScalars, MaxNodes)

-----------------------------------------------------------------------------
(* Strings *)

Ch(s, i) == SubSeq(s, i, i)

\* The byte values of the characters the model uses.
ByteValues ==
    LET table == {<<"\t", 9>>, <<"\n", 10>>, <<"\f", 12>>, <<"\r", 13>>, <<" ", 32>>,
                  <<"\"", 34>>, <<"#", 35>>, <<"%", 37>>, <<",", 44>>, <<"-", 45>>,
                  <<".", 46>>, <<"/", 47>>, <<"0", 48>>, <<"1", 49>>, <<"2", 50>>,
                  <<"3", 51>>, <<"4", 52>>, <<"5", 53>>, <<"6", 54>>, <<"7", 55>>,
                  <<"8", 56>>, <<"9", 57>>, <<":", 58>>, <<"=", 61>>, <<"?", 63>>,
                  <<"@", 64>>, <<"a", 97>>, <<"b", 98>>, <<"c", 99>>, <<"d", 100>>,
                  <<"e", 101>>, <<"f", 102>>, <<"g", 103>>, <<"h", 104>>, <<"i", 105>>,
                  <<"j", 106>>, <<"k", 107>>, <<"l", 108>>, <<"m", 109>>, <<"n", 110>>,
                  <<"o", 111>>, <<"p", 112>>, <<"q", 113>>, <<"r", 114>>, <<"s", 115>>,
                  <<"t", 116>>, <<"u", 117>>, <<"v", 118>>, <<"w", 119>>, <<"x", 120>>,
                  <<"y", 121>>, <<"z", 122>>, <<"{", 123>>, <<"}", 125>>}
    IN [c \in {p[1] : p \in table} |-> (CHOOSE p \in table : p[1] = c)[2]]

\* The byte value of a character: an operator that needs the value of a
\* character the model does not use has no value.
Ord(c) == ByteValues[c]

\* strings.Index for a one-character separator, from position i on: the
\* position of the first c, 0 when there is none.
RECURSIVE IndexOf(_, _, _)
IndexOf(s, c, i) ==
    IF i > Len(s) THEN 0 ELSE IF Ch(s, i) = c THEN i ELSE IndexOf(s, c, i + 1)

\* The pieces of s between the separators sep (strings.Split).
RECURSIVE SplitOn(_, _, _, _)
SplitOn(s, sep, i, cur) ==
    IF i > Len(s) THEN <<cur>>
    ELSE IF Ch(s, i) = sep THEN <<cur>> \o SplitOn(s, sep, i + 1, "")
    ELSE SplitOn(s, sep, i + 1, cur \o Ch(s, i))

\* s <= t in the byte-wise lexicographic order of Go's string comparison.
RECURSIVE StrLeqFrom(_, _, _)
StrLeqFrom(s, t, i) ==
    IF i > Len(s) THEN TRUE
    ELSE IF i > Len(t) THEN FALSE
    ELSE IF Ch(s, i) = Ch(t, i) THEN StrLeqFrom(s, t, i + 1)
    ELSE Ord(Ch(s, i)) < Ord(Ch(t, i))

StrLeq(s, t) == StrLeqFrom(s, t, 1)

\* The strings of the finite set S in increasing order.
RECURSIVE SortStrings(_)
SortStrings(S) ==
    IF S = {} THEN <<>>
    ELSE LET x == CHOOSE y \in S : \A z \in S : StrLeq(y, z)
         IN <<x>> \o SortStrings(S \ {x})

\* filepath.Ext: the suffix from the last dot of the last path element, "" when
\* that element has no dot.
RECURSIVE ExtFrom(_, _)
ExtFrom(path, i) ==
    IF i < 1 \/ Ch(path, i) = "/" THEN ""
    ELSE IF Ch(path, i) = "." THEN SubSeq(path, i, Len(path))
    ELSE ExtFrom(path, i - 1)

Ext(path) == ExtFrom(path, Len(path))

\* strings.Join(comps, sep)
RECURSIVE JoinStrings(_, _)
JoinStrings(comps, sep) ==
    IF comps = <<>> THEN ""
    ELSE IF Len(comps) = 1 THEN Head(comps)
    ELSE Head(comps) \o sep \o JoinStrings(Tail(comps), sep)

\* filepath.Clean's pass over the components of a path, out being the ones
\* kept so far: an empty one and "." are dropped, ".." removes the one before
\* it, is dropped at the root and is kept where nothing is left to remove.
RECURSIVE CleanComps(_, _, _)
CleanComps(comps, out, rooted) ==
    IF comps = <<>> THEN out
    ELSE LET c == Head(comps) IN
         IF c \in {"", "."} THEN CleanComps(Tail(comps), out, rooted)
         ELSE IF c = ".."
         THEN IF out # <<>> /\ out[Len(out)] # ".."
              THEN CleanComps(Tail(comps), SubSeq(out, 1, Len(out) - 1), rooted)
              ELSE IF rooted THEN CleanComps(Tail(comps), out, rooted)
              ELSE CleanComps(Tail(comps), Append(out, ".."), rooted)
         ELSE CleanComps(Tail(comps), Append(out, c), rooted)

\* filepath.Clean: the shortest path naming what path names, lexically.
Clean(path) ==
    LET rooted == Len(path) > 0 /\ Ch(path, 1) = "/"
        kept == JoinStrings(CleanComps(SplitOn(path, "/", 1, ""), <<>>, rooted), "/")
    IN IF rooted THEN "/" \o kept ELSE IF kept = "" THEN "." ELSE kept

\* filepath.Join(dir, name): the non-empty elements joined by a separator, cleaned.
Join(dir, name) == Clean(IF dir = "" THEN name ELSE dir \o "/" \o name)

-----------------------------------------------------------------------------
(* Errors.  An error is a message (kind), the identifier the message names *)
(* (id, "" when it names none) and the error it wraps (cause).             *)

NoCause == <<>>
NoErr == [kind |-> "", id |-> "", cause |-> NoCause]
Err(kind, id, cause) == [kind |-> kind, id |-> id, cause |-> cause]

-----------------------------------------------------------------------------
(* mergeMaps on a heap of map objects.  A map object is a function from    *)
(* keys to cells; a cell is a scalar, or a reference to another map        *)
(* object: Go maps are reference values, so copying out[k] = v copies the  *)
(* reference, not the nested map.                                          *)

ScalarCell(v) == [kind |-> v.kind, s |-> v.s, r |-> 0]
RefCell(a) == [kind |-> "ref", s |-> "", r |-> a]

SetKey(f, k, v) == [x \in DOMAIN f \cup {k} |-> IF x = k THEN v ELSE f[x]]

\* The tree an address stands for.
RECURSIVE Deref(_, _)
Deref(h, a) ==
    [k \in DOMAIN h[a] |->
        IF h[a][k].kind = "ref" THEN MapV(Deref(h, h[a][k].r))
        ELSE [kind |-> h[a][k].kind, s |-> h[a][k].s, m |-> EmptyTree]]

\* Store tree t in fresh map objects: [h |-> the new heap, r |-> t's address].
RECURSIVE Alloc(_, _)
RECURSIVE AllocKeys(_, _, _, _)
AllocKeys(h, a, t, ks) ==
    IF ks = <<>> THEN h
    ELSE LET k == Head(ks) IN
         IF IsMap(t[k])
         THEN LET sub == Alloc(h, t[k].m)
              IN AllocKeys([sub.h EXCEPT ![a] = SetKey(@, k, RefCell(sub.r))],
                           a, t, Tail(ks))
         ELSE AllocKeys([h EXCEPT ![a] = SetKey(@, k, ScalarCell(t[k]))],
                        a, t, Tail(ks))

Alloc(h, t) ==
    LET a == Len(h) + 1
    IN [h |-> AllocKeys(Append(h, EmptyTree), a, t, SetToSeq(DOMAIN t)), r |-> a]

\* The orders a range over a map can visit its keys in: the language leaves the
\* order open, and each range statement that runs may take any of them.
KeyOrders ==
    {o \in [1..Cardinality(Keys) -> Keys] : \A i, j \in DOMAIN o : i # j => o[i] # o[j]}

\* How many of the range statements mergeMaps(a, b) runs have an order to
\* take, the map they range over holding two keys or more: the two of the call
\* (over a, over b), and those of the call it makes for each key that holds a
\* mapping on both sides.
RECURSIVE Ranges(_, _)
Ranges(a, b) ==
    LET both == SetToSeq({k \in DOMAIN a \cap DOMAIN b : IsMap(a[k]) /\ IsMap(b[k])})
    IN (IF Cardinality(DOMAIN a) >= 2 THEN 1 ELSE 0)
       + (IF Cardinality(DOMAIN b) >= 2 THEN 1 ELSE 0)
       + SumSeq([i \in 1..Len(both) |-> Ranges(a[both[i]].m, b[both[i]].m)])

\* The orders the ranges of one call mergeMaps(a, b) can take: one order for
\* each range statement over two keys or more, in the order the statements run.
RangeOrders(a, b) == [1..Ranges(a, b) -> KeyOrders]

\* The order the next range statement takes, and the orders left after a range
\* over the keys S: a range over fewer than two keys has one order and takes
\* none of o.
NextOrder(o) == IF o = <<>> THEN SetToSeq(Keys) ELSE Head(o)
RestOrders(o, S) == IF o = <<>> \/ Cardinality(S) < 2 THEN o ELSE Tail(o)

\* The sequence in which a range that takes `order` visits the keys S; a key
\* outside Keys, which only a document written by hand can hold, is visited
\* after them.
RangeOrder(S, order) == SelectSeq(order, LAMBDA k : k \in S) \o SetToSeq(S \ Keys)

\* The loop `for k, v := range a { out[k] = v }` over the keys ks still to visit.
RECURSIVE copyLoop(_, _, _, _)
copyLoop(h, out, a, ks) ==
    IF ks = <<>> THEN h
    ELSE copyLoop([h EXCEPT ![out] = SetKey(@, Head(ks), h[a][Head(ks)])],
                  out, a, Tail(ks))

RECURSIVE mergeMapsHeap(_, _, _, _)
RECURSIVE mergeMapsLoop(_, _, _, _, _)

\* A bug: the recursive call is handed the enclosing map instead of the nested
\* one (mergeMaps(out, v) for mergeMaps(bv, v)).
mergeMapsLoopWrongArg(h, out, b, ks, o) ==
    IF ks = <<>> THEN [h |-> h, o |-> o]
    ELSE LET k == Head(ks)
             v == h[b][k]
         IN IF v.kind = "ref" /\ k \in DOMAIN h[out] /\ h[out][k].kind = "ref"
            THEN LET sub == mergeMapsHeap(h, out, v.r, o)
                 IN mergeMapsLoop([sub.h EXCEPT ![out] = SetKey(@, k, RefCell(sub.r))],
                                  out, b, Tail(ks), sub.o)
            ELSE mergeMapsLoop([h EXCEPT ![out] = SetKey(@, k, v)], out, b, Tail(ks), o)

\* A bug: no recursion, the overlay's value always replaces the base's.
mergeMapsLoopShallow(h, out, b, ks, o) ==
    IF ks = <<>> THEN [h |-> h, o |-> o]
    ELSE mergeMapsLoop([h EXCEPT ![out] = SetKey(@, Head(ks), h[b][Head(ks)])],
                       out, b, Tail(ks), o)

\* A bug: the loop ends after the first key it visits, so which key of b is
\* laid over out depends on the order of the range.
mergeMapsLoopFirstKeyOnly(h, out, b, ks, o) ==
    IF ks = <<>> THEN [h |-> h, o |-> o]
    ELSE LET k == Head(ks)
             v == h[b][k]
         IN IF v.kind = "ref" /\ k \in DOMAIN h[out] /\ h[out][k].kind = "ref"
            THEN LET sub == mergeMapsHeap(h, h[out][k].r, v.r, o)
                 IN [h |-> [sub.h EXCEPT ![out] = SetKey(@, k, RefCell(sub.r))],
                     o |-> sub.o]
            ELSE [h |-> [h EXCEPT ![out] = SetKey(@, k, v)], o |-> o]

\* The loop `for k, v := range b` over the keys ks still to visit, o being the
\* orders of the ranges still to run: [h |-> the heap, o |-> the orders left].
mergeMapsLoop(h, out, b, ks, o) ==
    IF ks = <<>> THEN [h |-> h, o |-> o]
    ELSE LET k == Head(ks)
             v == h[b][k]
         IN IF v.kind = "ref" /\ k \in DOMAIN h[out] /\ h[out][k].kind = "ref"
            THEN LET sub == mergeMapsHeap(h, h[out][k].r, v.r, o)
                 IN mergeMapsLoop([sub.h EXCEPT ![out] = SetKey(@, k, RefCell(sub.r))],
                                  out, b, Tail(ks), sub.o)
            ELSE mergeMapsLoop([h EXCEPT ![out] = SetKey(@, k, v)], out, b, Tail(ks), o)

\* A bug: out aliases a instead of being a fresh map (out := a).
mergeMapsInPlace(h, a, b, o) ==
    LET done == mergeMapsLoop(h, a, b, RangeOrder(DOMAIN h[b], NextOrder(o)),
                              RestOrders(o, DOMAIN h[b]))
    IN [h |-> done.h, r |-> a, o |-> done.o]

\* mergeMaps(a, b): out is a new map, a's entries are copied into it by the
\* first range, then the second range lays b over it.  o holds the orders of
\* the ranges to run: [h |-> the heap, r |-> out, o |-> the orders left].
mergeMapsHeap(h, a, b, o) ==
    LET out == Len(h) + 1
        copied == copyLoop(Append(h, EmptyTree), out, a,
                           RangeOrder(DOMAIN h[a], NextOrder(o)))
        left == RestOrders(o, DOMAIN h[a])
        done == mergeMapsLoop(copied, out, b, RangeOrder(DOMAIN h[b], NextOrder(left)),
                              RestOrders(left, DOMAIN h[b]))
    IN [h |-> done.h, r |-> out, o |-> done.o]

\* mergeMaps on trees: the arguments stored in fresh objects, merged with the
\* ranges taking the orders o, read back.
mergeMaps(a, b, o) ==
    LET ha == Alloc(<<>>, a)
        hb == Alloc(ha.h, b)
        res == mergeMapsHeap(hb.h, ha.r, hb.r, o)
    IN Deref(res.h, res.r)

\* b laid over a key by key, as a function of the two trees alone: what the
\* histories and the properties below reckon with.
RECURSIVE MergeRef(_, _)
MergeRef(a, b) ==
    [k \in DOMAIN a \cup DOMAIN b |->
        IF k \notin DOMAIN b THEN a[k]
        ELSE IF k \in DOMAIN a /\ IsMap(a[k]) /\ IsMap(b[k])
        THEN MapV(MergeRef(a[k].m, b[k].m))
        ELSE b[k]]

-----------------------------------------------------------------------------
(* The filesystem.  A node is a file, a directory with its entries (name   *)
(* -> node), or a directory that cannot be read ("locked").                *)

NoEntries == [n \in {} |-> 0]

FileNode(c) == [kind |-> "file", content |-> c, entries |-> NoEntries]
DirNode(e) == [kind |-> "dir", content |-> "", entries |-> e]
LockedNode == [kind |-> "locked", content |-> "", entries |-> NoEntries]

\* fs.DirEntry.IsDir
IsDir(node) == node.kind \in {"dir", "locked"}

Names == {"a", "a.yaml", "b.yaml", "c.txt"}

\* Number of entries below a node, and of a directory's entries.
RECURSIVE EntriesSize(_)
EntriesSize(e) ==
    LET ns == SetToSeq(DOMAIN e)
    IN SumSeq([i \in 1..Len(ns) |-> 1 + EntriesSize(e[ns[i]].entries)])

\* Every directory content over the names N with at most n entries in all.
RECURSIVE EntriesUpTo(_, _)
EntriesUpTo(N, n) ==
    IF N = {} \/ n = 0 THEN {NoEntries}
    ELSE LET x == CHOOSE y \in N : TRUE
             without == EntriesUpTo(N \ {x}, n)
             nodes == {FileNode(""), LockedNode}
                        \cup {DirNode(e) : e \in EntriesUpTo(Names, n - 1)}
         IN without \cup
            UNION {{SetKey(f, x, nd) :
                      f \in EntriesUpTo(N \ {x}, n - 1 - EntriesSize(nd.entries))}
                   : nd \in nodes}

\* The kernel's walk of a path's components from the directory the process
\* runs in, which is the root of the filesystem here: [node, errno].  stack
\* holds the directories from the root down to the one the walk is in.  A name,
\* "." and ".." are looked up in a directory the process may search; an empty
\* component (a doubled or a trailing slash) asks for a directory and looks
\* nothing up.
RECURSIVE Resolve(_, _)
Resolve(stack, comps) ==
    LET cur == stack[Len(stack)] IN
    IF comps = <<>> THEN [node |-> cur, errno |-> ""]
    ELSE IF cur.kind = "file" THEN [node |-> cur, errno |-> "not a directory"]
    ELSE IF Head(comps) = "" THEN Resolve(stack, Tail(comps))
    ELSE IF cur.kind = "locked" THEN [node |-> cur, errno |-> "permission denied"]
    ELSE LET c == Head(comps) IN
         IF c = "." THEN Resolve(stack, Tail(comps))
         ELSE IF c = ".."
         THEN Resolve(IF Len(stack) > 1 THEN SubSeq(stack, 1, Len(stack) - 1) ELSE stack,
                      Tail(comps))
         ELSE IF c \notin DOMAIN cur.entries
         THEN [node |-> cur, errno |-> "no such file or directory"]
         ELSE Resolve(Append(stack, cur.entries[c]), Tail(comps))

\* The node path names in the filesystem fs; the empty path names nothing.
ResolvePath(fs, path) ==
    IF path = "" THEN [node |-> DirNode(fs), errno |-> "no such file or directory"]
    ELSE Resolve(<<DirNode(fs)>>, SplitOn(path, "/", 1, ""))

\* A system call's error: the call, the path it was given, the errno.
PathError(op, path, errno) == Err(op, path, Err(errno, "", NoCause))

-----------------------------------------------------------------------------
(* listFilesRecursive: filepath.WalkDir with the collecting callback.      *)

\* A bug: directories are not skipped (the extension test alone decides).
walkFnNoDirCheck(path, node, extension) ==
    IF extension = "" \/ Ext(path) = extension THEN <<path>> ELSE <<>>

\* The callback on an entry that could be read: the paths it appends to files.
walkFn(path, node, extension) ==
    IF ~IsDir(node) /\ (extension = "" \/ Ext(path) = extension)
    THEN <<path>> ELSE <<>>

\* os.ReadDir: the names of a directory's entries, sorted by filename.
ReadDir(node) == SortStrings(DOMAIN node.entries)

\* filepath.WalkDir's walk of one entry: the callback on the entry, then, for a
\* directory, on its entries in ReadDir's order, each at filepath.Join(path,
\* name); a directory that cannot be read is handed to the callback a second
\* time with the error; the first error ends the walk.
RECURSIVE walkDir(_, _, _)
RECURSIVE walkEntries(_, _, _, _)
walkEntries(path, node, names, extension) ==
    IF names = <<>> THEN [files |-> <<>>, err |-> NoErr]
    ELSE LET first == walkDir(Join(path, Head(names)),
                              node.entries[Head(names)], extension)
         IN IF first.err # NoErr THEN first
            ELSE LET rest == walkEntries(path, node, Tail(names), extension)
                 IN [files |-> first.files \o rest.files, err |-> rest.err]

walkDir(path, node, extension) ==
    LET own == walkFn(path, node, extension)
    IN IF node.kind = "locked"
       THEN [files |-> own, err |-> Err("failed to read file info for", path,
                                  PathError("open", path, "permission denied"))]
       ELSE IF node.kind = "dir"
       THEN LET below == walkEntries(path, node, ReadDir(node), extension)
            IN [files |-> own \o below.files, err |-> below.err]
       ELSE [files |-> own, err |-> NoErr]

\* filepath.WalkDir(directory, fn), root being what os.Lstat(directory) finds:
\* an error goes to the callback, which wraps it; otherwise the walk starts at
\* the node found, under the path as given.
walkRoot(directory, root, extension) ==
    IF root.errno # ""
    THEN [files |-> <<>>,
          err |-> Err("failed to read file info for", directory,
                      PathError("lstat", directory, root.errno))]
    ELSE walkDir(directory, root.node, extension)

\* What listFilesRecursive returns for the walk's outcome: the files, or nil and
\* the walk's error wrapped with the directory.
listingOf(directory, walked) ==
    IF walked.err # NoErr
    THEN [files |-> <<>>, err |-> Err("failed to list files in directory", directory, walked.err)]
    ELSE [files |-> walked.files, err |-> NoErr]

\* listFilesRecursive(directory, extension) on the filesystem fs.
listFilesRecursive(fs, directory, extension) ==
    listingOf(directory, walkRoot(directory, ResolvePath(fs, directory), extension))

-----------------------------------------------------------------------------
(* readFile: standard input, a registered getter, or the local filesystem. *)

IsLetter(c) == Ord(c) \in 97..122
IsDigit(c) == Ord(c) \in 48..57
IsHex(c) == IsDigit(c) \/ Ord(c) \in 97..102

\* unicode.IsSpace, for the characters Ord knows: \t \n \f \r and the space.
IsSpace(c) == Ord(c) \in {9, 10, 12, 13, 32}

\* strings.TrimSpace: all leading and trailing white space removed.
RECURSIVE TrimLeft(_)
TrimLeft(s) ==
    IF Len(s) > 0 /\ IsSpace(Ch(s, 1)) THEN TrimLeft(SubSeq(s, 2, Len(s))) ELSE s
RECURSIVE TrimRight(_)
TrimRight(s) ==
    IF Len(s) > 0 /\ IsSpace(Ch(s, Len(s))) THEN TrimRight(SubSeq(s, 1, Len(s) - 1)) ELSE s
TrimSpace(s) == TrimRight(TrimLeft(s))

\* net/url getScheme: [scheme, rest, ok].
RECURSIVE getScheme(_, _)
getScheme(rawURL, i) ==
    IF i > Len(rawURL) THEN [scheme |-> "", rest |-> rawURL, ok |-> TRUE]
    ELSE LET c == Ch(rawURL, i) IN
         IF IsLetter(c) THEN getScheme(rawURL, i + 1)
         ELSE IF IsDigit(c) \/ c \in {"-", "."}
         THEN IF i = 1 THEN [scheme |-> "", rest |-> rawURL, ok |-> TRUE]
              ELSE getScheme(rawURL, i + 1)
         ELSE IF c = ":"
         THEN IF i = 1 THEN [scheme |-> "", rest |-> "", ok |-> FALSE]
              ELSE [scheme |-> SubSeq(rawURL, 1, i - 1),
                    rest |-> SubSeq(rawURL, i + 1, Len(rawURL)), ok |-> TRUE]
         ELSE [scheme |-> "", rest |-> rawURL, ok |-> TRUE]

\* The first path segment of rest holds a colon.
RECURSIVE ColonInFirstSegment(_, _)
ColonInFirstSegment(rest, i) ==
    IF i > Len(rest) \/ Ch(rest, i) = "/" THEN FALSE
    ELSE IF Ch(rest, i) = ":" THEN TRUE
    ELSE ColonInFirstSegment(rest, i + 1)

\* unhex: the value of a hexadecimal digit.
unhex(c) == IF IsDigit(c) THEN Ord(c) - 48 ELSE Ord(c) - 87

\* shouldEscape(c, encodeHost) is false: letters, digits, the sub-delimiters a
\* host may hold, and - _ . ~ (by byte value).
HostByteAllowed(n) ==
    \/ n \in 48..57 \/ n \in 65..90 \/ n \in 97..122
    \/ n \in {33, 36, 38, 39, 40, 41, 42, 43, 44, 59, 61, 58, 91, 93, 60, 62, 34}
    \/ n \in {45, 95, 46, 126}

\* unescape stops at position i of s: a % not followed by two hexadecimal
\* digits; in a host, a %XX of an ASCII byte other than %25, or a byte a host
\* may not hold.
BadAt(s, i, mode) ==
    IF Ch(s, i) = "%"
    THEN \/ ~(i + 2 <= Len(s) /\ IsHex(Ch(s, i + 1)) /\ IsHex(Ch(s, i + 2)))
         \/ mode = "host" /\ unhex(Ch(s, i + 1)) < 8 /\ SubSeq(s, i, i + 2) # "%25"
    ELSE mode = "host" /\ ~HostByteAllowed(Ord(Ch(s, i)))

\* The first position from i on that unescape stops at, 0 when it reads s
\* to its end.
RECURSIVE FirstBad(_, _, _)
FirstBad(s, i, mode) ==
    IF i > Len(s) THEN 0 ELSE IF BadAt(s, i, mode) THEN i ELSE FirstBad(s, i + 1, mode)

\* The error of unescape stopping at position i: an EscapeError with the
\* escape (cut at the end of s) or an InvalidHostError with the byte.
escapeErrorAt(s, i) ==
    IF i = 0 THEN NoErr
    ELSE IF Ch(s, i) = "%"
    THEN Err("invalid URL escape", SubSeq(s, i, IF i + 2 <= Len(s) THEN i + 2 ELSE Len(s)), NoCause)
    ELSE Err("invalid character in host name", Ch(s, i), NoCause)

\* unescape(s, mode), its error.
unescapeErr(s, mode) == escapeErrorAt(s, FirstBad(s, 1, mode))

\* The first of two errors, in the order the code meets them.
FirstErr(e1, e2) == IF e1 # NoErr THEN e1 ELSE e2

\* strings.LastIndex for a one-character separator: 0 when there is none.
RECURSIVE LastIndexOf(_, _, _)
LastIndexOf(s, c, i) ==
    IF i < 1 THEN 0 ELSE IF Ch(s, i) = c THEN i ELSE LastIndexOf(s, c, i - 1)

\* validOptionalPort: nothing, or a colon and digits only.
validOptionalPort(port) ==
    \/ port = ""
    \/ /\ Ch(port, 1) = ":"
       /\ \A i \in 2..Len(port) : IsDigit(Ch(port, i))

\* parseHost, its error, for a host that is not an IP literal in brackets.
parseHost(host) ==
    LET colon == LastIndexOf(host, ":", Len(host)) IN
    IF colon # 0 /\ ~validOptionalPort(SubSeq(host, colon, Len(host)))
    THEN Err("invalid port after host", SubSeq(host, colon, Len(host)), NoCause)
    ELSE unescapeErr(host, "host")

\* validUserinfo: letters, digits and -._:~!$&'()*+,;=%@ only.
validUserinfo(s) ==
    \A i \in 1..Len(s) :
        \/ IsLetter(Ch(s, i)) \/ IsDigit(Ch(s, i))
        \/ Ord(Ch(s, i)) \in {45, 46, 95, 58, 126, 33, 36, 38, 39, 40, 41, 42, 43, 44, 59, 61, 37, 64}

\* The user name and the password of a userinfo, unescaped one after the other.
userinfoErr(userinfo) ==
    LET colon == IndexOf(userinfo, ":", 1) IN
    IF colon = 0 THEN unescapeErr(userinfo, "userPassword")
    ELSE FirstErr(unescapeErr(SubSeq(userinfo, 1, colon - 1), "userPassword"),
                  unescapeErr(SubSeq(userinfo, colon + 1, Len(userinfo)), "userPassword"))

\* parseAuthority with the position at of the last "@" (0: none): the host is
\* parsed first, then the userinfo is validated and unescaped.
authorityErr(authority, at) ==
    FirstErr(parseHost(SubSeq(authority, at + 1, Len(authority))),
             IF at = 0 THEN NoErr
             ELSE IF ~validUserinfo(SubSeq(authority, 1, at - 1))
             THEN Err("net/url: invalid userinfo", "", NoCause)
             ELSE userinfoErr(SubSeq(authority, 1, at - 1)))

\* parseAuthority, its error: [userinfo@]host.
parseAuthority(authority) ==
    authorityErr(authority, LastIndexOf(authority, "@", Len(authority)))

HasPrefix(s, prefix) == Len(s) >= Len(prefix) /\ SubSeq(s, 1, Len(prefix)) = prefix

\* What url.Parse returns: the URL's scheme, or an error.
ParseFailed(e) == [scheme |-> "", ok |-> FALSE, err |-> e]
Parsed(scheme) == [scheme |-> scheme, ok |-> TRUE, err |-> NoErr]

\* The error e ends the parse; without one it goes on to r.
FailedOr(e, r) == IF e # NoErr THEN ParseFailed(e) ELSE r

\* setPath: the path is unescaped.
setPath(scheme, path) == FailedOr(unescapeErr(path, "path"), Parsed(scheme))

\* The authority runs up to the next slash; the path is what follows it.
parseAuthorityAndPath(scheme, s) ==
    LET slash == IndexOf(s, "/", 1) IN
    FailedOr(parseAuthority(IF slash = 0 THEN s ELSE SubSeq(s, 1, slash - 1)),
             setPath(scheme, IF slash = 0 THEN "" ELSE SubSeq(s, slash, Len(s))))

\* parse, after the scheme and the query are split off: a rest without a
\* leading slash is opaque under a scheme and may not hold a colon in its first
\* segment without one; a rest starting with "//" (without a scheme: not with
\* "///") holds an authority.
parseRest(scheme, rest) ==
    IF ~HasPrefix(rest, "/") /\ scheme # "" THEN Parsed(scheme)
    ELSE IF ~HasPrefix(rest, "/") /\ ColonInFirstSegment(rest, 1)
    THEN ParseFailed(Err("first path segment in URL cannot contain colon", "", NoCause))
    ELSE IF (scheme # "" \/ ~HasPrefix(rest, "///")) /\ HasPrefix(rest, "//")
    THEN parseAuthorityAndPath(scheme, SubSeq(rest, 3, Len(rest)))
    ELSE setPath(scheme, rest)

\* The part of s before its first "?": the query is kept raw, not unescaped.
CutQuery(s) ==
    LET q == IndexOf(s, "?", 1) IN IF q = 0 THEN s ELSE SubSeq(s, 1, q - 1)

\* stringContainsCTLByte: a byte below the space, or 0x7f.
stringContainsCTLByte(s) ==
    \E i \in 1..Len(s) : Ord(Ch(s, i)) < 32 \/ Ord(Ch(s, i)) = 127

\* parse: the URL without its fragment.
parse(u) ==
    IF stringContainsCTLByte(u)
    THEN ParseFailed(Err("net/url: invalid control character in URL", "", NoCause))
    ELSE LET gs == getScheme(u, 1) IN
         IF ~gs.ok THEN ParseFailed(Err("missing protocol scheme", "", NoCause))
         ELSE parseRest(gs.scheme, CutQuery(gs.rest))

\* The result r of parsing text, its error wrapped in a url.Error with the
\* operation and the text.
nameError(text, r) == IF r.ok THEN r ELSE ParseFailed(Err("parse", text, r.err))

\* setFragment on a URL that parsed: e is the error of unescaping the fragment.
setFragment(rawURL, r, e) ==
    IF r.ok /\ e # NoErr THEN ParseFailed(Err("parse", rawURL, e)) ELSE r

\* url.Parse, as far as readFile depends on it: [scheme, ok, err].  The
\* fragment is cut off at the first "#"; when what stands before it does not
\* parse the error names that part, without the fragment; the fragment is
\* unescaped after that, and its error names the whole text.  References are
\* over the characters Ord knows: no upper case, no IP literal in brackets.
urlParse(rawURL) ==
    LET hash == IndexOf(rawURL, "#", 1) IN
    IF hash = 0 THEN nameError(rawURL, parse(rawURL))
    ELSE setFragment(rawURL,
                     nameError(SubSeq(rawURL, 1, hash - 1), parse(SubSeq(rawURL, 1, hash - 1))),
                     unescapeErr(SubSeq(rawURL, hash + 1, Len(rawURL)), "fragment"))

\* os.ReadFile: the file is opened, then read; r is what the path resolves to.
\* A path that does not resolve, and a directory that may not be read, fail the
\* open; a directory opens and fails the read.
readNode(path, r) ==
    IF r.errno # "" THEN [data |-> "", err |-> PathError("open", path, r.errno)]
    ELSE IF r.node.kind = "file" THEN [data |-> r.node.content, err |-> NoErr]
    ELSE IF r.node.kind = "locked"
    THEN [data |-> "", err |-> PathError("open", path, "permission denied")]
    ELSE [data |-> "", err |-> PathError("read", path, "is a directory")]

osReadFile(fs, path) == readNode(path, ResolvePath(fs, path))

\* io.ReadAll(os.Stdin): everything not yet read; nothing once it is consumed.
ioReadAllStdin(in) ==
    IF in.broken
    THEN [data |-> "", err |-> Err("read", "/dev/stdin", Err("input/output error", "", NoCause))]
    ELSE [data |-> in.data, err |-> NoErr]

\* A bug: the stream is read from its start again by every read.
StdinAfterReadRewound(in) == in

\* io.ReadAll reads to the end of the stream: nothing is left for a later read.
StdinAfterRead(in) == IF in.broken THEN in ELSE [in EXCEPT !.data = ""]

\* getter.Providers.ByScheme: a getter is found when the scheme is registered.
ByScheme(providers, scheme) == scheme \in providers

\* Getter.Get
getterGet(remote, href) ==
    IF href \in DOMAIN remote THEN [data |-> remote[href], err |-> NoErr]
    ELSE [data |-> "", err |-> Err("failed to fetch", href, NoCause)]

\* A bug: when the getter fails the reference is read as a local file.
readFileFallbackOnGetError(filePath, env) ==
    IF TrimSpace(filePath) = "-"
    THEN LET r == ioReadAllStdin(env.stdin)
         IN [data |-> r.data, err |-> r.err, trace |-> <<"stdin">>,
             stdin |-> StdinAfterRead(env.stdin)]
    ELSE LET u == urlParse(filePath) IN
         IF ~u.ok
         THEN [data |-> "", err |-> u.err, trace |-> <<"parse">>, stdin |-> env.stdin]
         ELSE IF ~ByScheme(env.providers, u.scheme) \/ getterGet(env.remote, filePath).err # NoErr
         THEN LET r == osReadFile(env.fs, filePath)
              IN [data |-> r.data, err |-> r.err,
                  trace |-> <<"parse", "byScheme", "osReadFile">>, stdin |-> env.stdin]
         ELSE LET r == getterGet(env.remote, filePath)
              IN [data |-> r.data, err |-> r.err,
                  trace |-> <<"parse", "byScheme", "get">>, stdin |-> env.stdin]

\* readFile(filePath, p) in the world env: the data and error returned, the
\* calls made in order (trace) and standard input as the call leaves it.
readFile(filePath, env) ==
    IF TrimSpace(filePath) = "-"
    THEN LET r == ioReadAllStdin(env.stdin)
         IN [data |-> r.data, err |-> r.err, trace |-> <<"stdin">>,
             stdin |-> StdinAfterRead(env.stdin)]
    ELSE LET u == urlParse(filePath) IN
         IF ~u.ok
         THEN [data |-> "", err |-> u.err, trace |-> <<"parse">>, stdin |-> env.stdin]
         ELSE IF ~ByScheme(env.providers, u.scheme)
         THEN LET r == osReadFile(env.fs, filePath)
              IN [data |-> r.data, err |-> r.err,
                  trace |-> <<"parse", "byScheme", "osReadFile">>, stdin |-> env.stdin]
         ELSE LET r == getterGet(env.remote, filePath)
              IN [data |-> r.data, err |-> r.err,
                  trace |-> <<"parse", "byScheme", "get">>, stdin |-> env.stdin]

-----------------------------------------------------------------------------
(* The collaborators of MergeValues outside this package: the document     *)
(* codec (loader.LoadValues, json.Unmarshal) and the inline-assignment     *)
(* adapter (strvals).                                                      *)

FloatV(t) == [kind |-> "float", s |-> t, m |-> EmptyTree]

\* The documents the worlds below hold, with the tree each parses to.
YAMLDocs ==
    [c \in {"", "a: 1", "a: 2", "a: 3", "a: 5\nb: 5", "b: 1", "b: 9", "a: {b: 1}", "a: {a: 3}"} |->
        CASE c = "" -> EmptyTree
          [] c = "a: 1" -> [a |-> IntV("1")]
          [] c = "a: 2" -> [a |-> IntV("2")]
          [] c = "a: 3" -> [a |-> IntV("3")]
          [] c = "a: 5\nb: 5" -> [a |-> IntV("5"), b |-> IntV("5")]
          [] c = "b: 1" -> [b |-> IntV("1")]
          [] c = "b: 9" -> [b |-> IntV("9")]
          [] c = "a: {b: 1}" -> [a |-> MapV([b |-> IntV("1")])]
          [] c = "a: {a: 3}" -> [a |-> MapV([a |-> IntV("3")])]]

\* A text the model has no reading of: an operator applied to it has no value.
Unsupported(text) == CHOOSE x \in {} : x = text

\* loader.LoadValues: the tree of a document of the worlds below, an error for
\* one that is not YAML.
LoadValues(data) ==
    IF data \in DOMAIN YAMLDocs
    THEN [ok |-> TRUE, tree |-> YAMLDocs[data], err |-> NoErr]
    ELSE IF data \in {"a: ["}
    THEN [ok |-> FALSE, tree |-> EmptyTree,
          err |-> Err("error converting YAML to JSON", "", NoCause)]
    ELSE Unsupported(data)

BoolV(t) == [kind |-> "bool", s |-> t, m |-> EmptyTree]
NullV == [kind |-> "null", s |-> "", m |-> EmptyTree]

\* encoding/json's reading of a text, value by value: [st, v, i, err, saved],
\* i being the position after what was read.  Objects, strings without
\* escapes, unsigned integers with an exponent that is not negative, and true,
\* false and null are read; a text that goes on with an array, a sign, a
\* fraction, a negative exponent or an escape has no reading here.
JOk(v, i) == [st |-> "ok", v |-> v, i |-> i, err |-> NoErr, saved |-> NoErr]
JErr(kind, i) ==
    [st |-> "err", v |-> NullV, i |-> i, err |-> Err(kind, "", NoCause), saved |-> NoErr]

\* d.saveError(err): the text goes on being decoded, and the first error saved
\* is returned when the decoding is over.
JSaved(r, e) == [r EXCEPT !.saved = FirstErr(e, @)]

JSONDigits == {"0", "1", "2", "3", "4", "5", "6", "7", "8", "9"}

\* The first position from i on that holds no white space.
RECURSIVE jsonSkip(_, _)
jsonSkip(s, i) ==
    IF i <= Len(s) /\ Ch(s, i) \in {" ", "\t", "\n", "\r"} THEN jsonSkip(s, i + 1) ELSE i

\* A string, from the position after its opening quote.
RECURSIVE jsonString(_, _, _)
jsonString(s, i, acc) ==
    IF i > Len(s) THEN JErr("unexpected end of JSON input", i)
    ELSE IF Ch(s, i) = "\"" THEN JOk(StrV(acc), i + 1)
    ELSE IF Ch(s, i) = "\\" THEN Unsupported(s)
    ELSE IF Ch(s, i) \in {"\t", "\n", "\r", "\f"} THEN JErr("invalid character", i)
    ELSE jsonString(s, i + 1, acc \o Ch(s, i))

\* The first position from i on that holds no digit.
jsonDigitsEnd(s, i) ==
    LET stops == {e \in i..Len(s) : Ch(s, e) \notin JSONDigits}
    IN IF stops = {} THEN Len(s) + 1 ELSE CHOOSE e \in stops : \A f \in stops : e <= f

\* The least integer strconv.ParseFloat does not fit into a float64:
\* 2^1024 - 2^970, half way from the largest float64 to 2^1024, which rounds
\* to infinity.
Float64Overflow ==
    "179769313486231580793728971405303415079934132710037826936173778980444968292764750946649017977587207096330286416692887910946555547851940402630657488671505820681908902000708383676273854845817711531764475730270069855571366959622842914819860834936475292719074168444365510704342711559699508093042880177904174497792"

\* The i-th digit of the integer digits * 10^exp.
DigitAt(digits, i) == IF i <= Len(digits) THEN Ch(digits, i) ELSE "0"

\* strconv.ParseFloat returns a range error for digits * 10^exp: the integer
\* has more digits than Float64Overflow, or as many and is not below it.
OutOfFloat64(digits, exp) ==
    /\ digits # "0"
    /\ \/ Len(digits) + exp > Len(Float64Overflow)
       \/ /\ Len(digits) + exp = Len(Float64Overflow)
          /\ ~\E i \in 1..Len(Float64Overflow) :
                /\ Ord(DigitAt(digits, i)) < Ord(Ch(Float64Overflow, i))
                /\ \A j \in 1..(i - 1) : DigitAt(digits, j) = Ch(Float64Overflow, j)

\* d.convertNumber: the float64 of digits * 10^exp, written without an
\* exponent; a number out of the range of float64 decodes to nil and saves an
\* UnmarshalTypeError that names it; an integer of more than fifteen digits,
\* which a float64 may round, has no reading here.
convertNumber(literal, digits, exp, end) ==
    IF OutOfFloat64(digits, exp)
    THEN JSaved(JOk(NullV, end),
                Err("json: cannot unmarshal number into Go value of type float64",
                    literal, NoCause))
    ELSE IF digits = "0" THEN JOk(FloatV("0"), end)
    ELSE IF Len(digits) + exp <= 15
    THEN JOk(FloatV(digits \o SubSeq("000000000000000", 1, exp)), end)
    ELSE Unsupported(literal)

\* The number a string of at most four digits writes.
RECURSIVE ToNat(_)
ToNat(digits) ==
    IF digits = "" THEN 0
    ELSE 10 * ToNat(SubSeq(digits, 1, Len(digits) - 1)) + Ord(Ch(digits, Len(digits))) - 48

\* The exponent of a number, from the position p after its e: a plus sign or
\* none, then digits.  Where the text ends there, scanner.eof steps the scanner
\* with a space, which stateE and stateESign reject as any other character
\* that is no digit.
jsonExponent(s, i, p) ==
    LET q == IF p <= Len(s) /\ Ch(s, p) = "+" THEN p + 1 ELSE p
        end == jsonDigitsEnd(s, q)
    IN IF p <= Len(s) /\ Ch(s, p) = "-" THEN Unsupported(s)
       ELSE IF end = q THEN JErr("invalid character", q)
       ELSE IF end - q > 4 THEN Unsupported(s)
       ELSE convertNumber(SubSeq(s, i, end - 1), SubSeq(s, i, p - 2),
                          ToNat(SubSeq(s, q, end - 1)), end)

\* A number, which is decoded as a float64: a zero, or digits not led by one,
\* and an exponent or none.
jsonNumber(s, i) ==
    LET end == IF Ch(s, i) = "0" THEN i + 1 ELSE jsonDigitsEnd(s, i) IN
    IF end <= Len(s) /\ Ch(s, end) = "." THEN Unsupported(s)
    ELSE IF end <= Len(s) /\ Ch(s, end) \in {"e", "E"} THEN jsonExponent(s, i, end + 1)
    ELSE convertNumber(SubSeq(s, i, end - 1), SubSeq(s, i, end - 1), 0, end)

\* One of the literals true, false and null.  Where the text ends inside the
\* literal, scanner.eof steps the scanner with a space, which the literal's
\* state rejects: the error is the one of a wrong character, at the end.
jsonLiteral(s, i) ==
    LET rest == SubSeq(s, i, Len(s)) IN
    IF HasPrefix(rest, "true") THEN JOk(BoolV("true"), i + 4)
    ELSE IF HasPrefix(rest, "false") THEN JOk(BoolV("false"), i + 5)
    ELSE IF HasPrefix(rest, "null") THEN JOk(NullV, i + 4)
    ELSE IF \E w \in {"true", "false", "null"} : HasPrefix(w, rest) THEN JErr("invalid character", Len(s) + 1)
    ELSE JErr("invalid character", i)

RECURSIVE jsonValue(_, _)
RECURSIVE jsonMembers(_, _, _, _)
RECURSIVE jsonAfterKey(_, _, _, _)
RECURSIVE jsonKeyRead(_, _, _)
RECURSIVE jsonValueRead(_, _, _, _)
RECURSIVE jsonAfterValue(_, _, _, _)

\* The value at position i, white space skipped.
jsonValue(s, i) ==
    IF i > Len(s) THEN JErr("unexpected end of JSON input", i)
    ELSE IF Ch(s, i) = "{" THEN jsonMembers(s, jsonSkip(s, i + 1), EmptyTree, TRUE)
    ELSE IF Ch(s, i) = "\"" THEN jsonString(s, i + 1, "")
    ELSE IF Ch(s, i) \in JSONDigits THEN jsonNumber(s, i)
    ELSE IF Ch(s, i) \in {"t", "f", "n"} THEN jsonLiteral(s, i)
    ELSE IF Ch(s, i) \in {"[", "-"} THEN Unsupported(s)
    ELSE JErr("invalid character", i)

\* The members of an object from position i on, acc holding the ones read: a
\* key that comes again replaces the value it had.
jsonMembers(s, i, acc, first) ==
    IF i > Len(s) THEN JErr("unexpected end of JSON input", i)
    ELSE IF first /\ Ch(s, i) = "}" THEN JOk(MapV(acc), i + 1)
    ELSE IF Ch(s, i) # "\"" THEN JErr("invalid character", i)
    ELSE jsonKeyRead(s, acc, jsonString(s, i + 1, ""))

\* After the key k of a member.
jsonKeyRead(s, acc, k) ==
    IF k.st = "err" THEN k ELSE jsonAfterKey(s, jsonSkip(s, k.i), acc, k.v.s)

\* The colon and the value of the member named key.
jsonAfterKey(s, i, acc, key) ==
    IF i > Len(s) THEN JErr("unexpected end of JSON input", i)
    ELSE IF Ch(s, i) # ":" THEN JErr("invalid character", i)
    ELSE jsonValueRead(s, acc, key, jsonValue(s, jsonSkip(s, i + 1)))

\* After the value val of the member named key.
jsonValueRead(s, acc, key, val) ==
    IF val.st = "err" THEN val
    ELSE JSaved(jsonAfterValue(s, jsonSkip(s, val.i), SetKey(acc, key, val.v), key),
                val.saved)

\* What follows a member: a comma and the next member, or the closing brace.
jsonAfterValue(s, i, acc, key) ==
    IF i > Len(s) THEN JErr("unexpected end of JSON input", i)
    ELSE IF Ch(s, i) = "," THEN jsonMembers(s, jsonSkip(s, i + 1), acc, FALSE)
    ELSE IF Ch(s, i) = "}" THEN JOk(MapV(acc), i + 1)
    ELSE JErr("invalid character", i)

\* The text is one value r and white space: [ok, v, err].
jsonTop(text, r) ==
    IF r.st = "err" THEN [ok |-> FALSE, v |-> NullV, err |-> r.err, saved |-> NoErr]
    ELSE IF jsonSkip(text, r.i) <= Len(text)
    THEN [ok |-> FALSE, v |-> NullV, err |-> Err("invalid character", "", NoCause),
          saved |-> NoErr]
    ELSE [ok |-> TRUE, v |-> r.v, err |-> NoErr, saved |-> r.saved]

\* The one JSON value text holds.
jsonParse(text) == jsonTop(text, jsonValue(text, jsonSkip(text, 1)))

\* The value r stored into a map[string]any: an object fills the map, and the
\* error saved while it was decoded is returned; null leaves the map nil; any
\* other value, a number out of range included, does not fit.
jsonIntoMap(r) ==
    IF ~r.ok THEN [ok |-> FALSE, tree |-> EmptyTree, err |-> r.err]
    ELSE IF r.v.kind = "map" /\ r.saved # NoErr
    THEN [ok |-> FALSE, tree |-> EmptyTree, err |-> r.saved]
    ELSE IF r.v.kind = "map" THEN [ok |-> TRUE, tree |-> r.v.m, err |-> NoErr]
    ELSE IF r.v.kind = "null" /\ r.saved = NoErr
    THEN [ok |-> TRUE, tree |-> EmptyTree, err |-> NoErr]
    ELSE [ok |-> FALSE, tree |-> EmptyTree,
          err |-> Err("json: cannot unmarshal into Go value of type map[string]interface {}",
                      "", NoCause)]

\* json.Unmarshal into a map[string]any.
jsonUnmarshal(text) == jsonIntoMap(jsonParse(text))

\* The strvals parsers read assignments until the input ends: an empty input
\* holds none and is applied without a change or an error.
AllDigits(s) == Len(s) > 0 /\ \A i \in 1..Len(s) : IsDigit(Ch(s, i))

\* An assignment "key.sub=value": the key path and the text of the value.
ParseKeyValue(s) ==
    LET eq == IndexOf(s, "=", 1) IN
    IF eq = 0
    THEN [ok |-> FALSE, path |-> <<>>, val |-> "", err |-> Err("key has no value", s, NoCause)]
    ELSE [ok |-> TRUE, path |-> SplitOn(SubSeq(s, 1, eq - 1), ".", 1, ""),
          val |-> SubSeq(s, eq + 1, Len(s)), err |-> NoErr]

\* Set the addressed path of t to v, creating intermediate mappings as needed
\* and overwriting a scalar found along the path.
RECURSIVE SetPath(_, _, _)
SetPath(t, path, v) ==
    LET k == Head(path) IN
    IF Len(path) = 1 THEN SetKey(t, k, v)
    ELSE LET inner == IF k \in DOMAIN t /\ IsMap(t[k]) THEN t[k].m ELSE EmptyTree
         IN SetKey(t, k, MapV(SetPath(inner, Tail(path), v)))

Applied(t) == [ok |-> TRUE, tree |-> t, err |-> NoErr]
NotApplied(t, e) == [ok |-> FALSE, tree |-> t, err |-> e]

\* strvals.ParseInto: a value of digits is an integer, any other a string.
strvalsParseInto(s, t) ==
    LET kv == ParseKeyValue(s) IN
    IF s = "" THEN Applied(t)
    ELSE IF ~kv.ok THEN NotApplied(t, kv.err)
    ELSE Applied(SetPath(t, kv.path, IF AllDigits(kv.val) THEN IntV(kv.val) ELSE StrV(kv.val)))

\* strvals.ParseIntoString: the value is always a string.
strvalsParseIntoString(s, t) ==
    LET kv == ParseKeyValue(s) IN
    IF s = "" THEN Applied(t)
    ELSE IF ~kv.ok THEN NotApplied(t, kv.err)
    ELSE Applied(SetPath(t, kv.path, StrV(kv.val)))

\* strvals.ParseLiteralInto: the value is the text after the first "=", verbatim.
strvalsParseLiteralInto(s, t) ==
    LET kv == ParseKeyValue(s) IN
    IF s = "" THEN Applied(t)
    ELSE IF ~kv.ok THEN NotApplied(t, kv.err)
    ELSE Applied(SetPath(t, kv.path, StrV(kv.val)))

\* The decoded value r set at path, or its error, a saved one included.
setDecoded(t, path, r) ==
    IF ~r.ok THEN NotApplied(t, r.err)
    ELSE IF r.saved # NoErr THEN NotApplied(t, r.saved)
    ELSE Applied(SetPath(t, path, r.v))

\* strvals.ParseJSON: the value is decoded as JSON.
strvalsParseJSON(s, t) ==
    LET kv == ParseKeyValue(s) IN
    IF s = "" THEN Applied(t)
    ELSE IF ~kv.ok THEN NotApplied(t, kv.err)
    ELSE setDecoded(t, kv.path, jsonParse(kv.val))

\* strvals.ParseIntoFile: the value is what reader returns for the text after
\* "=", the reader's error is returned as it is.
strvalsParseIntoFile(s, t, read) ==
    LET kv == ParseKeyValue(s) IN
    IF ~kv.ok THEN NotApplied(t, kv.err)
    ELSE IF read.err # NoErr THEN NotApplied(t, read.err)
    ELSE Applied(SetPath(t, kv.path, StrV(read.data)))

-----------------------------------------------------------------------------
(* Options.MergeValues, one step per source entry.                         *)

\* The world the calls run in.
WorldFS ==
    [n \in {"d1", "d2", "v.yaml", "w.yaml", "bad.yaml"} |->
        CASE n = "d1" -> DirNode([e \in {"a", "a.yaml", "c.txt"} |->
                            CASE e = "a" -> DirNode([f \in {"a.yaml"} |-> FileNode("a: 1")])
                              [] e = "a.yaml" -> FileNode("a: 2")
                              [] e = "c.txt" -> FileNode("a: [")])
          [] n = "d2" -> DirNode([e \in {"b.yaml"} |-> FileNode("a: {b: 1}")])
          [] n = "v.yaml" -> FileNode("a: 3")
          [] n = "w.yaml" -> FileNode("a: {a: 3}")
          [] n = "bad.yaml" -> FileNode("a: [")]

WorldEnv(in) ==
    [stdin |-> in, providers |-> {"http"},
     remote |-> [u \in {"http://h/v.yaml"} |-> "b: 9"], fs |-> WorldFS]

DirRefs == {"d1", "./d2", "nodir"}
FileRefs == {"v.yaml", "w.yaml", "bad.yaml", "nofile.yaml", "-", "http://h/v.yaml"}
JSONRefs ==
    {"{\"a\": 4}", "\t{\"a\": {\"b\": 4}}\n", "{\"b\": 1e999}", "a=4", "{bad", "bad", "", " "}
SetRefs == {"a=5", "a.b=5", "bad"}
SetStringRefs == {"a=6", "a.b=6", "bad"}
SetFileRefs == {"a=v.yaml", "a=nofile.yaml", "b=-"}
LiteralRefs == {"a=7", "a.b=7", "bad"}

NilResult == [nil |-> TRUE, tree |-> EmptyTree]

\* A bug: the loop over opts.Values runs before the loop over opts.JSONValues.
StageSeqSetFirst == <<"files", "set", "json", "setString", "setFile", "setLiteral">>

\* The loops after the working file list is complete, in the order of the code.
StageSeq == <<"files", "json", "set", "setString", "setFile", "setLiteral">>

StageList(stage, vf) ==
    CASE stage = "files" -> vf
      [] stage = "json" -> opts.JSONValues
      [] stage = "set" -> opts.Values
      [] stage = "setString" -> opts.StringValues
      [] stage = "setFile" -> opts.FileValues
      [] stage = "setLiteral" -> opts.LiteralValues

\* The first loop from the k-th on that has an entry to range over; the
\* return statement when there is none.
RECURSIVE FirstStage(_, _)
FirstStage(k, vf) ==
    IF k > Len(StageSeq) THEN "return"
    ELSE IF Len(StageList(StageSeq[k], vf)) > 0 THEN StageSeq[k]
    ELSE FirstStage(k + 1, vf)

StageIndex(stage) == CHOOSE k \in 1..Len(StageSeq) : StageSeq[k] = stage

\* A bug: the accumulator built so far is returned beside the error.
AbortPartial(e) ==
    /\ pc' = "done"
    /\ err' = e
    /\ ret' = [nil |-> FALSE, tree |-> base]
    /\ UNCHANGED <<idx, valuesFiles, base, given, ndir>>

\* return nil, err
Abort(e) ==
    /\ pc' = "done"
    /\ err' = e
    /\ ret' = NilResult
    /\ UNCHANGED <<idx, valuesFiles, base, given, ndir>>

\* The end of one iteration of the loop `stage`: the next entry, or the next
\* loop that has one.
Continue(stage) ==
    /\ IF idx < Len(StageList(stage, valuesFiles))
       THEN pc' = stage /\ idx' = idx + 1
       ELSE pc' = FirstStage(StageIndex(stage) + 1, valuesFiles) /\ idx' = 1
    /\ UNCHANGED <<ret, err, valuesFiles, ndir>>

\* fmt.Errorf("failed to parse %s: %w", filePath, err)
failedToParse(filePath, e) == Err("failed to parse", filePath, e)

\* fmt.Errorf("failed parsing --set-json data JSON: %s", value) and
\* fmt.Errorf("failed parsing --set-json data %s", value): the cause is dropped.
failedSetJSON(message, value) == Err(message, value, NoCause)

\* fmt.Errorf("failed parsing --set data: %w", err), and the same for
\* --set-string, --set-file and --set-literal: the entry is not in the message.
failedInline(message, e) == Err(message, "", e)

\* A bug: the files of a directory are put in front of the working list.
appendFilesInFront(list, files) == files \o list

\* valuesFiles = append(valuesFiles, files...)
appendFiles(list, files) == list \o files

\* A bug: a directory that cannot be listed is skipped and the call goes on.
listingFailedSkipped(e) ==
    /\ IF idx < Len(opts.ValuesDirectories)
       THEN pc' = "dirs" /\ idx' = idx + 1
       ELSE pc' = "append" /\ idx' = 1
    /\ UNCHANGED <<valuesFiles, base, ret, err, given, ndir>>

\* if err != nil { return nil, err }: the listing's error ends the call, in the
\* loop over the directories, before the loop over the files.
listingFailed(e) == Abort(e)

\* 1. One iteration of the loop over opts.ValuesDirectories.
ListDirectory ==
    /\ pc = "dirs"
    /\ LET dir == opts.ValuesDirectories[idx]
           listed == listFilesRecursive(WorldFS, dir, ".yaml")
       IN /\ log' = Append(log, <<"list", dir>>)
          /\ IF listed.err # NoErr
             THEN listingFailed(listed.err)
             ELSE /\ valuesFiles' = appendFiles(valuesFiles, listed.files)
                  /\ IF idx < Len(opts.ValuesDirectories)
                     THEN pc' = "dirs" /\ idx' = idx + 1
                     ELSE pc' = "append" /\ idx' = 1
                  /\ UNCHANGED <<base, ret, err, given, ndir>>
    /\ UNCHANGED <<opts, stdin>>
    /\ UNCHANGED <<mvars, lvars, rvars>>

\* 2. valuesFiles = append(valuesFiles, opts.ValueFiles...)
AppendValueFiles ==
    /\ pc = "append"
    /\ valuesFiles' = appendFiles(valuesFiles, opts.ValueFiles)
    /\ ndir' = Len(valuesFiles)
    /\ pc' = FirstStage(1, valuesFiles')
    /\ idx' = 1
    /\ UNCHANGED <<opts, stdin, base, ret, err, log, given>>
    /\ UNCHANGED <<mvars, lvars, rvars>>

\* A bug: the arguments of the merge are swapped, an earlier file wins.
mergeIntoSwapped(acc, tree, o) == mergeMaps(tree, acc, o)

\* base = loader.MergeMaps(base, currentMap)
mergeInto(acc, tree, o) == mergeMaps(acc, tree, o)

\* One iteration of the loop over valuesFiles: fetch, parse, merge.
LoadFile ==
    /\ pc = "files"
    /\ LET filePath == valuesFiles[idx]
           raw == readFile(filePath, WorldEnv(stdin))
           currentMap == LoadValues(raw.data)
           tier == IF idx <= ndir THEN 1 ELSE 2
       IN /\ stdin' = raw.stdin
          /\ IF raw.err # NoErr
             THEN /\ log' = Append(log, <<"fetch", filePath>>)
                  /\ Abort(raw.err)
             ELSE IF ~currentMap.ok
             THEN /\ log' = Append(log, <<"fetch", filePath>>)
                  /\ Abort(failedToParse(filePath, currentMap.err))
             ELSE /\ log' = log \o << <<"fetch", filePath>>, <<"merge", filePath>> >>
                  /\ \E o \in RangeOrders(base, currentMap.tree) :
                        base' = mergeInto(base, currentMap.tree, o)
                  /\ given' = [given EXCEPT ![tier] = MergeRef(@, currentMap.tree)]
                  /\ Continue("files")
    /\ UNCHANGED opts
    /\ UNCHANGED <<mvars, lvars, rvars>>

\* A bug: the value is tested for the opening brace as given, untrimmed.
isJSONObjectUntrimmed(value) == Len(value) > 0 /\ Ch(value, 1) = "{"

\* len(trimmedValue) > 0 && trimmedValue[0] == '{'
isJSONObject(value) ==
    LET trimmedValue == TrimSpace(value)
    IN Len(trimmedValue) > 0 /\ Ch(trimmedValue, 1) = "{"

\* 3. One iteration of the loop over opts.JSONValues.
SetJSON ==
    /\ pc = "json"
    /\ LET value == opts.JSONValues[idx]
           trimmedValue == TrimSpace(value)
           object == isJSONObject(value)
           jsonMap == jsonUnmarshal(trimmedValue)
           flat == strvalsParseJSON(value, base)
       IN /\ log' = Append(log, <<"set-json", value>>)
          /\ IF object
             THEN IF ~jsonMap.ok
                  THEN Abort(failedSetJSON("failed parsing --set-json data JSON", value))
                  ELSE /\ \E o \in RangeOrders(base, jsonMap.tree) :
                             base' = mergeInto(base, jsonMap.tree, o)
                       /\ given' = [given EXCEPT ![3] = MergeRef(@, jsonMap.tree)]
                       /\ Continue("json")
             ELSE IF ~flat.ok
                  THEN Abort(failedSetJSON("failed parsing --set-json data", value))
                  ELSE /\ base' = flat.tree
                       /\ given' = [given EXCEPT ![3] = strvalsParseJSON(value, @).tree]
                       /\ Continue("json")
    /\ UNCHANGED <<opts, stdin>>
    /\ UNCHANGED <<mvars, lvars, rvars>>

\* 4. One iteration of the loop over opts.Values.
SetValue ==
    /\ pc = "set"
    /\ LET value == opts.Values[idx]
           done == strvalsParseInto(value, base)
       IN /\ log' = Append(log, <<"set", value>>)
          /\ IF ~done.ok
             THEN Abort(failedInline("failed parsing --set data", done.err))
             ELSE /\ base' = done.tree
                  /\ given' = [given EXCEPT ![4] = strvalsParseInto(value, @).tree]
                  /\ Continue("set")
    /\ UNCHANGED <<opts, stdin>>
    /\ UNCHANGED <<mvars, lvars, rvars>>

\* 5. One iteration of the loop over opts.StringValues.
SetString ==
    /\ pc = "setString"
    /\ LET value == opts.StringValues[idx]
           done == strvalsParseIntoString(value, base)
       IN /\ log' = Append(log, <<"set-string", value>>)
          /\ IF ~done.ok
             THEN Abort(failedInline("failed parsing --set-string data", done.err))
             ELSE /\ base' = done.tree
                  /\ given' = [given EXCEPT ![5] = strvalsParseIntoString(value, @).tree]
                  /\ Continue("setString")
    /\ UNCHANGED <<opts, stdin>>
    /\ UNCHANGED <<mvars, lvars, rvars>>

\* 6. One iteration of the loop over opts.FileValues; the reader handed to
\* strvals is readFile.
SetFile ==
    /\ pc = "setFile"
    /\ LET value == opts.FileValues[idx]
           kv == ParseKeyValue(value)
           read == IF kv.ok THEN readFile(kv.val, WorldEnv(stdin))
                   ELSE [data |-> "", err |-> NoErr, trace |-> <<>>, stdin |-> stdin]
           done == strvalsParseIntoFile(value, base, read)
       IN /\ log' = Append(log, <<"set-file", value>>)
          /\ stdin' = read.stdin
          /\ IF ~done.ok
             THEN Abort(failedInline("failed parsing --set-file data", done.err))
             ELSE /\ base' = done.tree
                  /\ given' = [given EXCEPT ![6] = strvalsParseIntoFile(value, @, read).tree]
                  /\ Continue("setFile")
    /\ UNCHANGED opts
    /\ UNCHANGED <<mvars, lvars, rvars>>

\* 7. One iteration of the loop over opts.LiteralValues.
SetLiteral ==
    /\ pc = "setLiteral"
    /\ LET value == opts.LiteralValues[idx]
           done == strvalsParseLiteralInto(value, base)
       IN /\ log' = Append(log, <<"set-literal", value>>)
          /\ IF ~done.ok
             THEN Abort(failedInline("failed parsing --set-literal data", done.err))
             ELSE /\ base' = done.tree
                  /\ given' = [given EXCEPT ![7] = strvalsParseLiteralInto(value, @).tree]
                  /\ Continue("setLiteral")
    /\ UNCHANGED <<opts, stdin>>
    /\ UNCHANGED <<mvars, lvars, rvars>>

\* return base, nil
ReturnBase ==
    /\ pc = "return"
    /\ ret' = [nil |-> FALSE, tree |-> base]
    /\ err' = NoErr
    /\ pc' = "done"
    /\ UNCHANGED <<opts, stdin, idx, valuesFiles, base, log, given, ndir>>
    /\ UNCHANGED <<mvars, lvars, rvars>>

-----------------------------------------------------------------------------
(* The variables of a specification that does not use them, at rest. *)

IdleMerge ==
    /\ heap = <<>> /\ heap0 = <<>>
    /\ mbase = 0 /\ moverlay = 0 /\ mout = 0 /\ mpc = "idle"

IdleList ==
    /\ lfs = NoEntries /\ ldir = "" /\ lext = ""
    /\ lres = [files |-> <<>>, err |-> NoErr]
    /\ lpc = "idle"

IdleRead ==
    /\ rref = "" /\ renv = <<>> /\ rres = <<>> /\ rpc = "idle"

IdleMergeValues ==
    /\ opts = <<>> /\ stdin = <<>> /\ pc = "idle" /\ idx = 0
    /\ valuesFiles = <<>> /\ base = EmptyTree
    /\ ret = NilResult /\ err = NoErr
    /\ log = <<>> /\ given = <<>> /\ ndir = 0

vars == <<mvars, lvars, rvars, pvars>>

-----------------------------------------------------------------------------
(* Specification SpecMerge: one call of mergeMaps on every pair of trees.  *)

InitMerge ==
    /\ \E a \in BaseTrees, same \in BOOLEAN :
       \E b \in OverlayTrees \cup {a} :
          LET ha == Alloc(<<>>, a)
              hb == Alloc(ha.h, b)
          IN \/ /\ ~same
                /\ heap = hb.h
                /\ mbase = ha.r
                /\ moverlay = hb.r
             \/ /\ same /\ a = b          \* mergeMaps(x, x): one object, twice
                /\ heap = ha.h
                /\ mbase = ha.r
                /\ moverlay = ha.r
    /\ heap0 = heap
    /\ mout = 0
    /\ mpc = "call"
    /\ IdleList /\ IdleRead /\ IdleMergeValues

CallMergeMaps ==
    /\ mpc = "call"
    /\ \E o \in RangeOrders(Deref(heap, mbase), Deref(heap, moverlay)) :
          LET res == mergeMapsHeap(heap, mbase, moverlay, o)
          IN /\ heap' = res.h
             /\ mout' = res.r
    /\ mpc' = "returned"
    /\ UNCHANGED <<heap0, mbase, moverlay>>
    /\ UNCHANGED <<lvars, rvars, pvars>>

NextMerge == CallMergeMaps

SpecMerge == InitMerge /\ [][NextMerge]_vars

-----------------------------------------------------------------------------
(* Specification SpecList: one call of listFilesRecursive on every         *)
(* directory tree of at most MaxEntries entries, missing root included.    *)

Extensions == {"", ".yaml"}

\* The directories asked for: the tree's root d by its name and by paths that
\* are not clean, the entry a below it, and a path through a name that is not
\* there.
InitList ==
    /\ ldir \in {"d", "d/", "./d", "d/a", "x/../d"}
    /\ \/ lfs = NoEntries
       \/ \E e \in EntriesUpTo(Names, MaxEntries) : lfs = [n \in {"d"} |-> DirNode(e)]
       \/ lfs = [n \in {"d"} |-> LockedNode]
       \/ lfs = [n \in {"d"} |-> FileNode("")]
    /\ lext \in Extensions
    /\ lres = [files |-> <<>>, err |-> NoErr]
    /\ lpc = "call"
    /\ IdleMerge
    /\ IdleRead /\ IdleMergeValues

CallListFilesRecursive ==
    /\ lpc = "call"
    /\ lres' = listFilesRecursive(lfs, ldir, lext)
    /\ lpc' = "returned"
    /\ UNCHANGED <<lfs, ldir, lext>>
    /\ UNCHANGED <<mvars, rvars, pvars>>

NextList == CallListFilesRecursive

SpecList == InitList /\ [][NextList]_vars

-----------------------------------------------------------------------------
(* Specification SpecRead: one call of readFile for every reference and    *)
(* world below.                                                            *)

ReadRefs ==
    {"-", " - ", "%a.txt", "v.yaml", "d/v.yaml", "http://h/v.yaml", "http://h/%zz",
     ":v", "1a:v", "c:v.yaml", "file:v.yaml", " v.yaml",
     "http://h:v/a", "http://a b.com/", "// a", "http://%41:80/", "http://h:80/v.yaml#%zz",
     "v.yaml?%zz", "d", "l", "v.yaml/x", "./v.yaml", "d/../v.yaml",
     "\t-", "-\n", ":v#x", "http://h:v/a#x", "\tv.yaml"}

ReadFilesystems ==
    {NoEntries,
     [n \in {"v.yaml", "http:", "d", "l"} |->
        CASE n = "v.yaml" -> FileNode("a: 1")
          [] n = "l" -> LockedNode
          [] n = "http:" -> DirNode([h \in {"h"} |-> DirNode([f \in {"v.yaml"} |-> FileNode("a: 3")])])
          [] n = "d" -> DirNode([f \in {"v.yaml"} |-> FileNode("a: 2")])]}

InitRead ==
    /\ rref \in ReadRefs
    /\ \E providers \in SUBSET {"http", "c"},
          remote \in {NoEntries, [u \in {"http://h/v.yaml", "c:v.yaml"} |-> "a: 9"]},
          fs \in ReadFilesystems,
          data \in {"", "a: 5"},
          broken \in BOOLEAN :
          renv = [stdin |-> [data |-> data, broken |-> broken],
                  providers |-> providers, remote |-> remote, fs |-> fs]
    /\ rres = <<>>
    /\ rpc = "call"
    /\ IdleMerge
    /\ IdleList /\ IdleMergeValues

CallReadFile ==
    /\ rpc = "call"
    /\ rres' = readFile(rref, renv)
    /\ rpc' = "returned"
    /\ UNCHANGED <<rref, renv>>
    /\ UNCHANGED <<mvars, lvars, pvars>>

NextRead == CallReadFile

SpecRead == InitRead /\ [][NextRead]_vars

-----------------------------------------------------------------------------
(* Specification Spec: one call of MergeValues on every Options value with *)
(* at most MaxSources entries drawn from the references of the world.      *)

Tiers == 1..7

LenVectors ==
    {lv \in [Tiers -> 0..MaxSources] : SumSeq(lv) <= MaxSources}

Init ==
    /\ \E lv \in LenVectors :
          opts \in [ValuesDirectories : [1..lv[1] -> DirRefs],
                    ValueFiles : [1..lv[2] -> FileRefs],
                    JSONValues : [1..lv[3] -> JSONRefs],
                    Values : [1..lv[4] -> SetRefs],
                    StringValues : [1..lv[5] -> SetStringRefs],
                    FileValues : [1..lv[6] -> SetFileRefs],
                    LiteralValues : [1..lv[7] -> LiteralRefs]]
    /\ stdin = [data |-> "a: 5\nb: 5", broken |-> FALSE]
    /\ pc = IF Len(opts.ValuesDirectories) > 0 THEN "dirs" ELSE "append"
    /\ idx = 1
    /\ valuesFiles = <<>>
    /\ base = EmptyTree
    /\ ret = NilResult
    /\ err = NoErr
    /\ log = <<>>
    /\ given = [t \in Tiers |-> EmptyTree]
    /\ ndir = 0
    /\ IdleMerge
    /\ IdleList /\ IdleRead

Next ==
    \/ ListDirectory
    \/ AppendValueFiles
    \/ LoadFile
    \/ SetJSON
    \/ SetValue
    \/ SetString
    \/ SetFile
    \/ SetLiteral
    \/ ReturnBase

Spec == Init /\ [][Next]_vars

-----------------------------------------------------------------------------
(* Properties of mergeMaps, checked under SpecMerge. *)

MergedBase == Deref(heap0, mbase)
MergedOverlay == Deref(heap0, moverlay)
MergedResult == Deref(heap, mout)

\* C3: Merge(base, overlay) has exactly the keys of base and overlay; a key only
\* in base keeps base's value, a key whose values are mappings on both sides
\* holds their merge, and in every other case the overlay's value is taken
\* wholesale (a scalar replaces a mapping, a mapping replaces a scalar).
C3_MergePerKey ==
    mpc = "returned" =>
        /\ DOMAIN MergedResult = DOMAIN MergedBase \cup DOMAIN MergedOverlay
        /\ \A k \in DOMAIN MergedResult :
              IF k \notin DOMAIN MergedOverlay THEN MergedResult[k] = MergedBase[k]
              ELSE IF /\ IsMap(MergedOverlay[k])
                      /\ k \in DOMAIN MergedBase
                      /\ IsMap(MergedBase[k])
                   THEN \A o \in RangeOrders(MergedBase[k].m, MergedOverlay[k].m) :
                           MergedResult[k] =
                              MapV(mergeMaps(MergedBase[k].m, MergedOverlay[k].m, o))
                   ELSE MergedResult[k] = MergedOverlay[k]

\* A call where one key merges two mappings that differ, another case replaces a
\* mapping by a scalar.
C3_Witness ==
    /\ mpc = "returned"
    /\ "a" \in DOMAIN MergedBase /\ "a" \in DOMAIN MergedOverlay
    /\ IsMap(MergedBase["a"]) /\ IsMap(MergedOverlay["a"])
    /\ MergedBase["a"].m # EmptyTree
    /\ DOMAIN MergedOverlay["a"].m # DOMAIN MergedBase["a"].m
    /\ MergedResult["a"] \notin {MergedBase["a"], MergedOverlay["a"]}

\* C5: Merge(X, X) = X, for the same map object passed twice and for two equal
\* trees held in different objects.
C5_MergeIdempotent ==
    (mpc = "returned" /\ MergedBase = MergedOverlay) => MergedResult = MergedBase

C5_Witness ==
    /\ mpc = "returned"
    /\ MergedBase = MergedOverlay
    /\ \E k \in DOMAIN MergedBase :
          IsMap(MergedBase[k]) /\ MergedBase[k].m # EmptyTree
    /\ MergedResult = MergedBase

\* C6: mergeMaps leaves every map object that existed before the call as it was
\* (so base and overlay are unchanged at every depth) and returns a map object
\* that did not exist before, hence distinct from base.
C6_MergeNoMutation ==
    mpc = "returned" =>
        /\ \A a \in 1..Len(heap0) : heap[a] = heap0[a]
        /\ Deref(heap, mbase) = MergedBase
        /\ Deref(heap, moverlay) = MergedOverlay
        /\ mout \notin 1..Len(heap0)
        /\ mout # mbase

\* A call that had to write: the result differs from base, nested maps on both
\* sides.
C6_Witness ==
    /\ mpc = "returned"
    /\ MergedResult # MergedBase
    /\ \E k \in DOMAIN MergedBase \cap DOMAIN MergedOverlay :
          /\ IsMap(MergedBase[k]) /\ IsMap(MergedOverlay[k])
          /\ MergedResult[k] # MergedBase[k]

-----------------------------------------------------------------------------
(* Properties of listFilesRecursive, checked under SpecList. *)

\* Every entry of the tree rooted at path, the root included, with its path.
RECURSIVE TreeEntries(_, _)
TreeEntries(path, node) ==
    {[path |-> path, node |-> node]}
      \cup UNION {TreeEntries(Join(path, n), node.entries[n]) : n \in DOMAIN node.entries}

\* ext is the extension of path: it starts at a dot that no dot and no
\* separator follows, and runs to the end of path.
HasExtension(path, ext) ==
    \E i \in 1..Len(path) :
        /\ Ch(path, i) = "."
        /\ SubSeq(path, i, Len(path)) = ext
        /\ \A j \in (i + 1)..Len(path) : Ch(path, j) \notin {".", "/"}

ListedFiles == {lres.files[i] : i \in 1..Len(lres.files)}

\* C7: a successful listFilesRecursive(directory, extension) returns a path if
\* and only if it names a non-directory entry of the tree rooted at directory
\* and (extension is empty or the path's extension, dot included, equals
\* extension); each such path is returned once and no directory is returned.
C7_ListedIffFileWithExtension ==
    (lpc = "returned" /\ lres.err = NoErr) =>
        LET entries == TreeEntries(ldir, ResolvePath(lfs, ldir).node)
            want == {e.path : e \in {x \in entries :
                        /\ x.node.kind = "file"
                        /\ (lext = "" \/ HasExtension(x.path, lext))}}
        IN /\ ListedFiles = want
           /\ Len(lres.files) = Cardinality(want)
           /\ \A e \in entries : e.node.kind # "file" => e.path \notin ListedFiles

\* A listing with the .yaml filter over a tree that holds a directory whose name
\* ends in .yaml, a listed file inside it and a file of another extension.
C7_Witness ==
    /\ lpc = "returned" /\ lres.err = NoErr /\ lext = ".yaml"
    /\ lres.files = <<"d/b.yaml/a.yaml">>
    /\ "c.txt" \in DOMAIN lfs["d"].entries

\* C8: the list listFilesRecursive returns is sorted: each path, compared as a
\* whole string, is less than or equal to the one after it.
C8_ListSortedAsStrings ==
    lpc = "returned" =>
        \A i \in 1..(Len(lres.files) - 1) : StrLeq(lres.files[i], lres.files[i + 1])

-----------------------------------------------------------------------------
(* Properties of readFile, checked under SpecRead. *)

\* C9: readFile resolves a reference in a fixed order: the trimmed reference
\* "-" reads standard input and nothing else; otherwise a reference that does
\* not parse as a URL fails before any getter or file is consulted; otherwise a
\* getter registered for the scheme decides (its data or its error, no local
\* read); only without such a getter is the reference read as a local file.
C9_ReadFileOrder ==
    rpc = "returned" =>
        LET scheme == getScheme(rref, 1).scheme IN
        /\ rres.trace \in {<<"stdin">>, <<"parse">>, <<"parse", "byScheme", "get">>,
                           <<"parse", "byScheme", "osReadFile">>}
        /\ rres.trace = <<"stdin">> <=> rref \in {"-", " - ", "\t-", "-\n"}
        /\ rres.trace = <<"stdin">> =>
              /\ rres.data = (IF renv.stdin.broken THEN "" ELSE renv.stdin.data)
              /\ (rres.err # NoErr <=> renv.stdin.broken)
        /\ rref \in {"%a.txt", "http://h/%zz", ":v", "1a:v", "http://h:v/a",
                     "http://a b.com/", "// a", "http://%41:80/",
                     "http://h:80/v.yaml#%zz", ":v#x", "http://h:v/a#x",
                     "\tv.yaml"} => rres.trace = <<"parse">>
        /\ rres.trace = <<"parse">> =>
              /\ rres.err.kind = "parse" /\ rres.data = ""
              /\ rres.err.cause # NoCause
              /\ rres.err.id = (CASE rref = ":v#x" -> ":v"
                                  [] rref = "http://h:v/a#x" -> "http://h:v/a"
                                  [] OTHER -> rref)
        /\ rres.trace # <<"stdin">> => rres.stdin = renv.stdin
        /\ rres.trace = <<"parse", "byScheme", "get">> =>
              /\ scheme \in renv.providers
              /\ IF rref \in DOMAIN renv.remote
                 THEN rres.err = NoErr /\ rres.data = renv.remote[rref]
                 ELSE rres.err.kind = "failed to fetch" /\ rres.data = ""
        /\ rres.trace = <<"parse", "byScheme", "osReadFile">> =>
              /\ scheme \notin renv.providers
              /\ rres.err.kind \in {"", "open", "read"}
              /\ rres.err = NoErr => rres.data # ""
              /\ rres.err.kind = "read" => rres.err.cause.kind = "is a directory"

\* A failing getter with a local file of the same name at hand: the getter's
\* error is returned and the file is not read.
C9_Witness ==
    /\ rpc = "returned"
    /\ rref = "http://h/v.yaml"
    /\ "http" \in renv.providers
    /\ rref \notin DOMAIN renv.remote
    /\ osReadFile(renv.fs, rref).err = NoErr
    /\ rres.err.kind = "failed to fetch"
    /\ rres.trace = <<"parse", "byScheme", "get">>

-----------------------------------------------------------------------------
(* Properties of MergeValues, checked under Spec. *)

InitialStdin == [data |-> "a: 5\nb: 5", broken |-> FALSE]

\* What listFilesRecursive returns for each directory a caller can name.
WorldListing == [d \in DirRefs |-> listFilesRecursive(WorldFS, d, ".yaml")]

Succeeded == pc = "done" /\ err = NoErr
Failed == pc = "done" /\ err # NoErr

\* The source the call touched last, and what it did with it.
LastOp == log[Len(log)][1]
LastSource == log[Len(log)][2]

\* The world of the calls said source by source, as its files, its input and
\* the entries are written, with no reader or parser in between.

\* The .yaml files under each directory that can be listed.
Listed ==
    ("d1" :> <<"d1/a/a.yaml", "d1/a.yaml">>) @@ ("./d2" :> <<"d2/b.yaml">>)

\* The mapping written in each document that can be fetched and parsed, and
\* the one written on standard input.
DocumentTrees ==
    ("d1/a/a.yaml" :> [a |-> IntV("1")])
    @@ ("d1/a.yaml" :> [a |-> IntV("2")])
    @@ ("d2/b.yaml" :> [a |-> MapV([b |-> IntV("1")])])
    @@ ("v.yaml" :> [a |-> IntV("3")])
    @@ ("w.yaml" :> [a |-> MapV([a |-> IntV("3")])])
    @@ ("http://h/v.yaml" :> [b |-> IntV("9")])

StdinTree == [a |-> IntV("5"), b |-> IntV("5")]

\* What each inline entry that can be applied gives: the mapping a JSON object
\* writes, the one path an assignment sets.
EntryTrees ==
    (<<"set-json", "{\"a\": 4}">> :> [a |-> FloatV("4")])
    @@ (<<"set-json", "\t{\"a\": {\"b\": 4}}\n">> :> [a |-> MapV([b |-> FloatV("4")])])
    @@ (<<"set-json", "a=4">> :> [a |-> FloatV("4")])
    @@ (<<"set-json", "">> :> EmptyTree)
    @@ (<<"set", "a=5">> :> [a |-> IntV("5")])
    @@ (<<"set", "a.b=5">> :> [a |-> MapV([b |-> IntV("5")])])
    @@ (<<"set-string", "a=6">> :> [a |-> StrV("6")])
    @@ (<<"set-string", "a.b=6">> :> [a |-> MapV([b |-> StrV("6")])])
    @@ (<<"set-file", "a=v.yaml">> :> [a |-> StrV("a: 3")])
    @@ (<<"set-literal", "a=7">> :> [a |-> StrV("7")])
    @@ (<<"set-literal", "a.b=7">> :> [a |-> MapV([b |-> StrV("7")])])

NoSuchFile == Err("no such file or directory", "", NoCause)
NoValue(entry) == Err("key has no value", entry, NoCause)

\* The error a call ends with at each source that cannot be listed, fetched,
\* parsed or applied.
SourceErrors ==
    (<<"list", "nodir">> :>
        Err("failed to list files in directory", "nodir",
            Err("failed to read file info for", "nodir", Err("lstat", "nodir", NoSuchFile))))
    @@ (<<"file", "bad.yaml">> :>
        Err("failed to parse", "bad.yaml", Err("error converting YAML to JSON", "", NoCause)))
    @@ (<<"file", "nofile.yaml">> :> Err("open", "nofile.yaml", NoSuchFile))
    @@ (<<"set-json", "{bad">> :> Err("failed parsing --set-json data JSON", "{bad", NoCause))
    @@ (<<"set-json", "{\"b\": 1e999}">> :>
        Err("failed parsing --set-json data JSON", "{\"b\": 1e999}", NoCause))
    @@ (<<"set-json", "bad">> :> Err("failed parsing --set-json data", "bad", NoCause))
    @@ (<<"set-json", " ">> :> Err("failed parsing --set-json data", " ", NoCause))
    @@ (<<"set", "bad">> :> Err("failed parsing --set data", "", NoValue("bad")))
    @@ (<<"set-string", "bad">> :> Err("failed parsing --set-string data", "", NoValue("bad")))
    @@ (<<"set-file", "a=nofile.yaml">> :>
        Err("failed parsing --set-file data", "", Err("open", "nofile.yaml", NoSuchFile)))
    @@ (<<"set-literal", "bad">> :> Err("failed parsing --set-literal data", "", NoValue("bad")))

\* The files of the directories that can be listed, in the order of dirs.
RECURSIVE FilesListed(_)
FilesListed(dirs) ==
    IF dirs = <<>> THEN <<>>
    ELSE (IF Head(dirs) \in DOMAIN Listed THEN Listed[Head(dirs)] ELSE <<>>)
         \o FilesListed(Tail(dirs))

Tagged(tier, op, refs) == [i \in 1..Len(refs) |-> <<tier, op, refs[i]>>]

\* The sources <<tier, kind, reference>> of the options o in the order of the
\* ranks, and in the caller's order within a tier.
Sources(o) ==
    Tagged(1, "file", FilesListed(o.ValuesDirectories))
    \o Tagged(2, "file", o.ValueFiles)
    \o Tagged(3, "set-json", o.JSONValues)
    \o Tagged(4, "set", o.Values)
    \o Tagged(5, "set-string", o.StringValues)
    \o Tagged(6, "set-file", o.FileValues)
    \o Tagged(7, "set-literal", o.LiteralValues)

ReadsStdin(src) == <<src[2], src[3]>> \in {<<"file", "-">>, <<"set-file", "b=-">>}

\* What the i-th of the sources srcs gives: standard input gives what is
\* written on it to the first source that reads it, and nothing to the others.
SourceTree(srcs, i) ==
    LET first == \A j \in 1..(i - 1) : ~ReadsStdin(srcs[j])
    IN CASE <<srcs[i][2], srcs[i][3]>> = <<"file", "-">> ->
               IF first THEN StdinTree ELSE EmptyTree
         [] <<srcs[i][2], srcs[i][3]>> = <<"set-file", "b=-">> ->
               [b |-> StrV(IF first THEN "a: 5\nb: 5" ELSE "")]
         [] srcs[i][2] = "file" /\ srcs[i][3] # "-" -> DocumentTrees[srcs[i][3]]
         [] OTHER -> EntryTrees[<<srcs[i][2], srcs[i][3]>>]

\* The first n of the sources srcs laid one over the other, in their order.
RECURSIVE Laid(_, _)
Laid(srcs, n) ==
    IF n = 0 THEN EmptyTree ELSE MergeRef(Laid(srcs, n - 1), SourceTree(srcs, n))

\* What the sources of tier t among srcs give, laid one over the other.
RECURSIVE TierGave(_, _, _)
TierGave(srcs, t, n) ==
    IF n = 0 THEN EmptyTree
    ELSE IF srcs[n][1] = t THEN MergeRef(TierGave(srcs, t, n - 1), SourceTree(srcs, n))
    ELSE TierGave(srcs, t, n - 1)

\* The paths of the scalars of a tree.
RECURSIVE LeafPaths(_)
LeafPaths(t) ==
    UNION {IF IsMap(t[k]) THEN {<<k>> \o q : q \in LeafPaths(t[k].m)} ELSE {<<k>>} :
           k \in DOMAIN t}

Absent == [kind |-> "absent", s |-> "", m |-> EmptyTree]

\* The value t holds at the path q.
RECURSIVE ValueAt(_, _)
ValueAt(t, q) ==
    IF Head(q) \notin DOMAIN t THEN Absent
    ELSE IF Len(q) = 1 THEN t[Head(q)]
    ELSE IF IsMap(t[Head(q)]) THEN ValueAt(t[Head(q)].m, Tail(q))
    ELSE Absent

\* Laying t over a tree replaces what that tree holds at the path q: t gives a
\* value at q, or a scalar at a mapping above q.
RECURSIVE Replaces(_, _)
Replaces(t, q) ==
    /\ Head(q) \in DOMAIN t
    /\ \/ Len(q) = 1
       \/ ~IsMap(t[Head(q)])
       \/ Replaces(t[Head(q)].m, Tail(q))

\* The highest-rank tier whose sources set the top-level key k.
SettingTiers(k) == {t \in Tiers : k \in DOMAIN given[t]}
HighestTier(k) == CHOOSE t \in SettingTiers(k) : \A u \in SettingTiers(k) : u <= t

\* Every entry of the mapping small is in big, with the same value at every
\* depth.
Holds(big, small) == MergeRef(big, small) = big

ReplacedLater(srcs, i, q) ==
    \E j \in (i + 1)..Len(srcs) : Replaces(SourceTree(srcs, j), q)

RECURSIVE ListedFilesOf(_)
ListedFilesOf(dirs) ==
    IF dirs = <<>> THEN <<>>
    ELSE WorldListing[Head(dirs)].files \o ListedFilesOf(Tail(dirs))

ExpectedFiles == ListedFilesOf(opts.ValuesDirectories) \o opts.ValueFiles

\* The left fold acc := Merge(acc, parsed(file)) over files, each file fetched
\* with standard input as the files before it left it.
RECURSIVE FoldFiles(_, _, _)
FoldFiles(acc, files, in) ==
    IF files = <<>> THEN acc
    ELSE LET raw == readFile(Head(files), WorldEnv(in))
         IN FoldFiles(MergeRef(acc, LoadValues(raw.data).tree), Tail(files), raw.stdin)

FileStageOver ==
    /\ pc \in {"json", "set", "setString", "setFile", "setLiteral", "return"}
    /\ pc = FirstStage(2, valuesFiles)
    /\ idx = 1

\* C2: the working file list is each directory's listed .yaml files, directories
\* in the caller's order, followed by the caller's value files in their order;
\* the accumulator is the left fold of Merge over the files loaded so far, and
\* over the whole list once the file loop is over.
C2_FileListAndFold ==
    /\ (pc \notin {"dirs", "append"} /\ ~(Failed /\ LastOp = "list")) =>
          valuesFiles = ExpectedFiles
    /\ pc = "files" =>
          base = FoldFiles(EmptyTree, SubSeq(valuesFiles, 1, idx - 1), InitialStdin)
    /\ FileStageOver => base = FoldFiles(EmptyTree, valuesFiles, InitialStdin)

\* Two directories and a values file, all setting a: the file loop is over and
\* the last file of the list has won.
C2_Witness ==
    /\ FileStageOver
    /\ valuesFiles = <<"d2/b.yaml", "d1/a/a.yaml", "d1/a.yaml", "v.yaml">>
    /\ base = [a |-> IntV("3")]

\* The references of the world that cannot be listed, fetched, parsed or applied.
FailingRefs ==
    {"nodir", "bad.yaml", "nofile.yaml", "{bad", "{\"b\": 1e999}", "bad", " ", "a=nofile.yaml"}

\* C4: a failure at any step ends the call at that step: the failing source is
\* the last one touched, nothing of it is merged, the returned map is nil and
\* the error is not; without a failure the map is not nil and the error is.  A
\* missing values directory fails the call.
C4_FailureAborts ==
    /\ \A i \in 1..Len(log) :
          log[i][2] \in FailingRefs =>
             /\ i = Len(log)
             /\ log[i][1] # "merge"
             /\ Failed
    /\ Failed => ret = NilResult /\ LastOp # "merge" /\ LastSource \in FailingRefs
    /\ pc = "done" => (ret.nil <=> err # NoErr)
    /\ pc # "done" => err = NoErr
    /\ (pc = "done" /\ "nodir" \in {opts.ValuesDirectories[i] : i \in 1..Len(opts.ValuesDirectories)})
          => /\ Failed
             /\ LastSource = "nodir"
             /\ \A i \in 1..Len(log) : log[i][1] = "list"

\* A values file that does not parse, after a directory was merged and before a
\* --set entry: the call ends there with nil.
C4_Witness ==
    /\ Failed
    /\ opts.ValuesDirectories = <<"d1">> /\ opts.ValueFiles = <<"bad.yaml">>
    /\ opts.Values = <<"a=5">>
    /\ base # EmptyTree
    /\ ret = NilResult
    /\ LastSource = "bad.yaml"

\* e, or an error e wraps, names the identifier s.
RECURSIVE ErrNames(_, _)
ErrNames(e, s) == e.id = s \/ (e.cause # NoCause /\ ErrNames(e.cause, s))

\* C10: every error MergeValues returns names the source that failed: the
\* directory, the file path, the literal --set-json input, the raw entry of an
\* inline tier.
C10_ErrorNamesSource ==
    Failed => ErrNames(err, LastSource)

\* The --set-json entries the call has taken up so far, in the order taken.
JSONEntriesTaken(l) ==
    LET sel == SelectSeq(l, LAMBDA e : e[1] = "set-json")
    IN [i \in 1..Len(sel) |-> sel[i][2]]

\* Every entry base holds beside the ones overlay sets is in merged unchanged,
\* at every depth where both hold a mapping.
RECURSIVE SiblingsKept(_, _, _)
SiblingsKept(before, overlay, merged) ==
    \A k \in DOMAIN before :
        /\ k \in DOMAIN merged
        /\ k \notin DOMAIN overlay => merged[k] = before[k]
        /\ (k \in DOMAIN overlay /\ IsMap(before[k]) /\ IsMap(overlay[k])) =>
              /\ IsMap(merged[k])
              /\ SiblingsKept(before[k].m, overlay[k].m, merged[k].m)

WhiteSpace == {" ", "\t", "\n", "\r", "\f"}

\* The first character of value that is not white space is an opening brace.
OpensObject(value) ==
    \E i \in 1..Len(value) :
        /\ Ch(value, i) = "{"
        /\ \A j \in 1..(i - 1) : Ch(value, j) \in WhiteSpace

\* The top-level keys the assignment sets hold its values, the others are as
\* they were.
Assigned(before, assignment) ==
    [k \in DOMAIN before \cup DOMAIN assignment |->
        IF k \in DOMAIN assignment THEN assignment[k] ELSE before[k]]

\* C11: each step of the set-json loop takes the next entry in the caller's
\* order.  An entry whose first character after leading white space is "{" is
\* read whole as one JSON object and laid over the accumulator key by key, the
\* accumulator's other keys under the same mappings being kept; when it is not
\* an object that can be decoded (a number out of range included) the call ends
\* with nil and the message for JSON objects.  Any other entry, an empty or
\* blank one included, is one flat key=value assignment worked on the
\* accumulator; when it is not one the call ends with nil and the message for
\* assignments.
C11_SetJSONRouting ==
    [][pc = "json" =>
          LET value == opts.JSONValues[idx]
              entry == <<"set-json", value>>
          IN /\ JSONEntriesTaken(log') = SubSeq(opts.JSONValues, 1, idx)
             /\ IF OpensObject(value)
                THEN IF entry \in DOMAIN EntryTrees
                     THEN /\ pc' # "done" /\ err' = NoErr
                          /\ base' = MergeRef(base, EntryTrees[entry])
                          /\ SiblingsKept(base, EntryTrees[entry], base')
                     ELSE /\ pc' = "done" /\ ret' = NilResult
                          /\ err' = Err("failed parsing --set-json data JSON", value, NoCause)
                ELSE IF entry \in DOMAIN EntryTrees
                     THEN /\ pc' # "done" /\ err' = NoErr
                          /\ base' = Assigned(base, EntryTrees[entry])
                     ELSE /\ pc' = "done" /\ ret' = NilResult
                          /\ err' = Err("failed parsing --set-json data", value, NoCause)]_vars

\* A values file gave a: {a: 3}; the entry ' {"a": {"b": 4}}', with a blank in
\* front, was merged and a.a is kept.
C11_Witness ==
    /\ pc # "done"
    /\ Len(log) > 0
    /\ log[Len(log)] = <<"set-json", "\t{\"a\": {\"b\": 4}}\n">>
    /\ given[2] = [a |-> MapV([a |-> IntV("3")])]
    /\ base = [a |-> MapV([a |-> IntV("3"), b |-> FloatV("4")])]

\* What a call on o returns in this world, reckoned from the options and from
\* what the world's sources are written to hold: the error of the first
\* directory that cannot be listed, else the error of the first source that
\* fails, else the sources laid one over the other.
RefOutcome(o) ==
    LET dirs == o.ValuesDirectories
        unlisted == {i \in 1..Len(dirs) : dirs[i] \notin DOMAIN Listed}
        srcs == Sources(o)
        failing == {i \in 1..Len(srcs) : <<srcs[i][2], srcs[i][3]>> \in DOMAIN SourceErrors}
        firstDir == CHOOSE i \in unlisted : \A j \in unlisted : i <= j
        first == CHOOSE i \in failing : \A j \in failing : i <= j
    IN IF unlisted # {}
       THEN [ret |-> NilResult, err |-> SourceErrors[<<"list", dirs[firstDir]>>]]
       ELSE IF failing # {}
       THEN [ret |-> NilResult, err |-> SourceErrors[<<srcs[first][2], srcs[first][3]>>]]
       ELSE [ret |-> [nil |-> FALSE, tree |-> Laid(srcs, Len(srcs))], err |-> NoErr]

\* C12: what MergeValues returns (the tree, or the error) is a function of the
\* options, the filesystem, the capabilities and the input: whichever order
\* each range over a map takes, the copy of base and the walk over overlay
\* alike, a finished call holds the one outcome reckoned from the options and
\* the world; and Merge of the accumulator the call ended with and what a tier
\* gave, either way round, is the same tree for every choice of an order for
\* each of its ranges.
C12_Deterministic ==
    /\ pc = "done" => (ret = RefOutcome(opts).ret /\ err = RefOutcome(opts).err)
    /\ pc = "done" =>
          \A t \in Tiers :
             \A o \in RangeOrders(base, given[t]) :
                /\ mergeMaps(base, given[t], o) = MergeRef(base, given[t])
                /\ mergeMaps(given[t], base, o) = MergeRef(given[t], base)

\* Standard input, which sets a and b, is laid over a: {a: 3}: the range over
\* the overlay has two keys to visit, in either order.
C12_Witness ==
    /\ Succeeded
    /\ Cardinality(RangeOrders([a |-> MapV([a |-> IntV("3")])], StdinTree)) > 1
    /\ opts.ValueFiles = <<"w.yaml", "-">>
    /\ given[2] = [a |-> IntV("5"), b |-> IntV("5")]
    /\ ret.tree = [a |-> IntV("5"), b |-> IntV("5")]

\* How many times the call has read standard input so far.
StdinReads(l) ==
    Len(SelectSeq(l, LAMBDA e : (e[1] = "fetch" /\ TrimSpace(e[2]) = "-")
                                \/ (e[1] = "set-file" /\ e[2] = "b=-")))

\* C13: a values file "-" merges the whole of standard input the first time the
\* call reads it and nothing any later time; --set-file b=- sets b to the whole
\* input the first time and to the empty string any later time; neither fails
\* the call, however often standard input was read before.
C13_StdinReadOnce ==
    [][LET whole == InitialStdin.data
           got == IF StdinReads(log) = 0 THEN whole ELSE ""
       IN /\ (pc = "files" /\ TrimSpace(valuesFiles[idx]) = "-") =>
                /\ pc' # "done" /\ err' = NoErr
                /\ StdinReads(log') = StdinReads(log) + 1
                /\ base' = MergeRef(base, YAMLDocs[got])
          /\ (pc = "setFile" /\ opts.FileValues[idx] = "b=-") =>
                /\ pc' # "done" /\ err' = NoErr
                /\ StdinReads(log') = StdinReads(log) + 1
                /\ base' = SetKey(base, "b", StrV(got))]_vars

\* Standard input named twice as a values file and once by --set-file: the first
\* read gave a and b, the second nothing, the third the empty string.
C13_Witness ==
    /\ Succeeded
    /\ opts.ValueFiles = <<"-", "-">> /\ opts.FileValues = <<"b=-">>
    /\ StdinReads(log) = 3
    /\ given[2] = [a |-> IntV("5"), b |-> IntV("5")]
    /\ ret.tree = [a |-> IntV("5"), b |-> StrV("")]

ListingErr(dir) == WorldListing[dir].err

\* C14: the directories are all listed before the first document is fetched: in
\* the order of what the call did no listing comes after a fetch, and a call
\* that has fetched has listed every directory, each without an error; a call
\* that met a directory it could not list has ended there with that error and
\* nil, having fetched, parsed and merged nothing, the files of directories
\* listed before it included, and having left standard input unread.
C14_ListedBeforeFetched ==
    /\ \A i, j \in 1..Len(log) :
          (i < j /\ log[j][1] = "list") => log[i][1] = "list"
    /\ (\E i \in 1..Len(log) : log[i][1] # "list") =>
          /\ Len(log) >= Len(opts.ValuesDirectories)
          /\ \A i \in 1..Len(opts.ValuesDirectories) :
                /\ log[i] = <<"list", opts.ValuesDirectories[i]>>
                /\ ListingErr(opts.ValuesDirectories[i]) = NoErr
    /\ \A i \in 1..Len(log) :
          (log[i][1] = "list" /\ ListingErr(log[i][2]) # NoErr) =>
             /\ i = Len(log)
             /\ Failed /\ err = ListingErr(log[i][2]) /\ ret = NilResult
             /\ \A j \in 1..Len(log) : log[j][1] = "list"
             /\ base = EmptyTree
             /\ \A t \in Tiers : given[t] = EmptyTree
             /\ stdin = InitialStdin

\* d1 was listed and holds two .yaml files, the next directory is missing, and
\* standard input is named as a values file: the call ended at the listing.
C14_Witness ==
    /\ Failed
    /\ opts.ValuesDirectories = <<"d1", "nodir">> /\ opts.ValueFiles = <<"-">>
    /\ log = << <<"list", "d1">>, <<"list", "nodir">> >>
    /\ valuesFiles = <<"d1/a/a.yaml", "d1/a.yaml">>
    /\ base = EmptyTree
    /\ stdin = InitialStdin

====
